---- MODULE Spec2Model ----
(***************************************************************************)
(* Evidence retrieval pipeline of boost-health-service:                    *)
(*   api/vector_db/lexical_filter.py     _tokenize, compute_lexical_score  *)
(*   api/services/reranking_service.py   RerankingService                  *)
(*   api/services/search_service.py      SearchService                     *)
(*   api/vector_db/qdrant_manager.py     QdrantManager.search              *)
(*   api/api/routes.py                   evidence_search                   *)
(*                                                                         *)
(* Representation.                                                         *)
(*  - A Python str is a sequence of one-character strings, so that         *)
(*    lower(), replace(), split(), join() and the `in` substring test are  *)
(*    computed character by character.                                     *)
(*  - An Optional value is None == <<>> or Some(x) == <<x>>.               *)
(*  - A float score is an integer count of 1/Scale units; every score the  *)
(*    model produces is an exact multiple of 1/Scale.                      *)
(*  - SearchResult objects live in `heap` (index = object identity);       *)
(*    Python lists of results are sequences of heap indices, so that the   *)
(*    in-place mutation done by rerank is visible as in the program.       *)
(***************************************************************************)
EXTENDS Integers, Sequences, FiniteSets, TLC

VARIABLES
    pc,           \* position of the request inside evidence_search / search
    request,      \* the SearchRequest of the call
    filters,      \* dict built by _build_filters
    raw_results,  \* list returned by QdrantManager.search
    heap,         \* the SearchResult objects created by _to_search_result
    results,      \* local `results` of search(): list of object references
    reranked_out, \* list returned by RerankingService.rerank (None if not run)
    response,     \* SearchResponse returned by search() (None if none)
    http_status,  \* status answered by the route (0 while in flight)
    encoder_outcome, \* "none" | "returned" | "raised"
    store_outcome,   \* "none" | "returned" | "raised"
    call,         \* a direct call of a scoring function (None if none)
    ret,          \* the value the direct call returned (None until it returns)
    encoder_calls, \* number of calls of encoder.encode_queries made by search()
    store_calls,  \* number of calls of qdrant.search made by search()
    events,       \* the events search_streaming has yielded so far
    tasks         \* the search() calls running concurrently on one service

vars == <<pc, request, filters, raw_results, heap, results, reranked_out,
          response, http_status, encoder_outcome, store_outcome, call, ret,
          encoder_calls, store_calls, events, tasks>>

----------------------------------------------------------------------------
(* Optional values *)

None == <<>>

Some(x) == <<x>>

Val(o) == o[1]

\* A payload key that is stored holding JSON null (Python's None): a value
\* that is neither an absent key (None) nor a stored value (Some(x)).
Null == <<"null", "null">>

\* Python truthiness of an Optional[int]: None and 0 are falsy.
TruthyInt(o) == o # None /\ Val(o) # 0

\* Python truthiness of an Optional[str] / Optional[list]: None and empty are falsy.
TruthySeq(o) == o # None /\ Val(o) # <<>>

----------------------------------------------------------------------------
(* Fixed-point scores *)

\* 1.0 in score units; 3000 is divisible by 10, by 5 and by every query
\* length up to 6, so the lexical and combined scores below are exact.
Scale == 2 * 2 * 2 * 3 * 5 * 5 * 5

----------------------------------------------------------------------------
(* lexical_filter.py *)

STOPWORDS == {
    <<"a">>, <<"a", "n">>, <<"a", "n", "d">>,
    <<"a", "r", "e">>, <<"a", "s">>, <<"a", "t">>,
    <<"b", "e">>, <<"b", "e", "e", "n">>, <<"b", "y">>,
    <<"f", "o", "r">>, <<"f", "r", "o", "m">>, <<"h", "a", "s">>,
    <<"h", "a", "v", "e">>, <<"i", "n">>, <<"i", "s">>,
    <<"i", "t">>, <<"i", "t", "s">>, <<"o", "f">>,
    <<"o", "n">>, <<"o", "r">>, <<"t", "h", "a", "t">>,
    <<"t", "h", "e">>, <<"t", "o">>, <<"w", "a", "s">>,
    <<"w", "e", "r", "e">>, <<"w", "i", "l", "l">>, <<"w", "i", "t", "h">>,
    <<"w", "i", "t", "h", "o", "u", "t">>, <<"s", "t", "u", "d", "y">>, <<"s", "t", "u", "d", "i", "e", "s">>,
    <<"t", "r", "i", "a", "l">>, <<"t", "r", "i", "a", "l", "s">>, <<"r", "a", "n", "d", "o", "m", "i", "z", "e", "d">>,
    <<"r", "a", "n", "d", "o", "m", "i", "s", "e", "d">>, <<"c", "o", "n", "t", "r", "o", "l", "l", "e", "d">>, <<"d", "o", "u", "b", "l", "e">>,
    <<"b", "l", "i", "n", "d">>, <<"p", "l", "a", "c", "e", "b", "o">>, <<"e", "f", "f", "e", "c", "t">>,
    <<"e", "f", "f", "e", "c", "t", "s">>, <<"t", "r", "e", "a", "t", "m", "e", "n", "t">>, <<"t", "h", "e", "r", "a", "p", "y">>,
    <<"p", "a", "t", "i", "e", "n", "t">>, <<"p", "a", "t", "i", "e", "n", "t", "s">>, <<"w", "o", "m", "e", "n">>,
    <<"m", "e", "n">>, <<"w", "o", "m", "a", "n">>, <<"m", "a", "n">>,
    <<"h", "u", "m", "a", "n">>, <<"h", "u", "m", "a", "n", "s">>, <<"s", "u", "b", "j", "e", "c", "t", "s">>,
    <<"s", "u", "b", "j", "e", "c", "t">>, <<"p", "a", "r", "t", "i", "c", "i", "p", "a", "n", "t", "s">>, <<"p", "a", "r", "t", "i", "c", "i", "p", "a", "n", "t">>,
    <<"g", "r", "o", "u", "p">>, <<"g", "r", "o", "u", "p", "s">>, <<"o", "u", "t", "c", "o", "m", "e">>,
    <<"o", "u", "t", "c", "o", "m", "e", "s">>, <<"r", "i", "s", "k">>, <<"r", "i", "s", "k", "s">>,
    <<"a", "s", "s", "o", "c", "i", "a", "t", "i", "o", "n">>, <<"a", "s", "s", "o", "c", "i", "a", "t", "e", "d">>, <<"i", "m", "p", "a", "c", "t">>,
    <<"c", "l", "i", "n", "i", "c", "a", "l">>, <<"c", "o", "h", "o", "r", "t">>, <<"r", "e", "v", "i", "e", "w">>,
    <<"a", "n", "a", "l", "y", "s", "i", "s">>, <<"a", "n", "a", "l", "y", "z", "e", "d">>, <<"e", "v", "a", "l", "u", "a", "t", "e", "d">>,
    <<"c", "o", "m", "p", "a", "r", "e", "d">>, <<"r", "e", "s", "u", "l", "t">>, <<"r", "e", "s", "u", "l", "t", "s">>,
    <<"d", "a", "t", "a">>, <<"m", "e", "t", "h", "o", "d">>, <<"m", "e", "t", "h", "o", "d", "s">>,
    <<"r", "e", "s", "e", "a", "r", "c", "h">>, <<"s", "a", "m", "p", "l", "e">>, <<"p", "o", "p", "u", "l", "a", "t", "i", "o", "n">>,
    <<"d", "e", "s", "i", "g", "n">>, <<"f", "i", "n", "d", "i", "n", "g", "s">>, <<"c", "o", "n", "c", "l", "u", "s", "i", "o", "n">>,
    <<"b", "a", "c", "k", "g", "r", "o", "u", "n", "d">>, <<"o", "b", "j", "e", "c", "t", "i", "v", "e">>, <<"i", "n", "t", "e", "r", "v", "e", "n", "t", "i", "o", "n">>,
    <<"i", "n", "t", "e", "r", "v", "e", "n", "t", "i", "o", "n", "s">>, <<"m", "e", "a", "s", "u", "r", "e">>, <<"m", "e", "a", "s", "u", "r", "e", "d">>,
    <<"a", "s", "s", "e", "s", "s", "m", "e", "n", "t">>
}

PUNCTUATION == <<",", ".", ";", ":", "(", ")", "[", "]", "{", "}", "\"", "'", "!", "?", "/", "-">>

UpperToLower ==
    [c \in {"A","B","C","D","E","F","G","H","I","J","K","L","M",
            "N","O","P","Q","R","S","T","U","V","W","X","Y","Z"} |->
        CASE c = "A" -> "a" [] c = "B" -> "b" [] c = "C" -> "c" [] c = "D" -> "d"
          [] c = "E" -> "e" [] c = "F" -> "f" [] c = "G" -> "g" [] c = "H" -> "h"
          [] c = "I" -> "i" [] c = "J" -> "j" [] c = "K" -> "k" [] c = "L" -> "l"
          [] c = "M" -> "m" [] c = "N" -> "n" [] c = "O" -> "o" [] c = "P" -> "p"
          [] c = "Q" -> "q" [] c = "R" -> "r" [] c = "S" -> "s" [] c = "T" -> "t"
          [] c = "U" -> "u" [] c = "V" -> "v" [] c = "W" -> "w" [] c = "X" -> "x"
          [] c = "Y" -> "y" [] c = "Z" -> "z"]

\* str.lower()
lower(text) ==
    [i \in 1..Len(text) |->
        IF text[i] \in DOMAIN UpperToLower THEN UpperToLower[text[i]] ELSE text[i]]

\* the loop `for ch in ",.;:()[]{}\"'!?/-": text = text.replace(ch, " ")`
replace_punctuation(text) ==
    [i \in 1..Len(text) |->
        IF \E k \in 1..Len(PUNCTUATION) : PUNCTUATION[k] = text[i] THEN " " ELSE text[i]]

\* str.split(): the maximal runs of non-blank characters, in text order
split(text) ==
    LET starts == {i \in 1..Len(text) :
                      text[i] # " " /\ (i = 1 \/ text[i - 1] = " ")}
        start(n) == CHOOSE i \in starts : Cardinality({j \in starts : j < i}) = n - 1
        end(i) == CHOOSE j \in i..Len(text) :
                      /\ \A k \in i..j : text[k] # " "
                      /\ (j = Len(text) \/ text[j + 1] = " ")
    IN  [n \in 1..Cardinality(starts) |-> SubSeq(text, start(n), end(start(n)))]

_tokenize(text) == split(replace_punctuation(lower(text)))

SelectNotStopword(tokens) == SelectSeq(tokens, LAMBDA t : t \notin STOPWORDS)

SetOf(seq) == {seq[i] : i \in 1..Len(seq)}

\* compute_lexical_score dividing by the number of content tokens of the
\* query, repeats included, instead of the size of their set
compute_lexical_score_counting_repeats(query, title, abstract) ==
    LET query_tokens  == _tokenize(query)
        doc_text      == IF TruthySeq(abstract)
                         THEN title \o <<" ">> \o Val(abstract)
                         ELSE title
        doc_tokens    == _tokenize(doc_text)
        query_content == SelectNotStopword(query_tokens)
        doc_content   == SelectNotStopword(doc_tokens)
        query_set     == SetOf(query_content)
        doc_set       == SetOf(doc_content)
        overlap_count == Cardinality(query_set \cap doc_set)
        query_content_len == Len(query_content)
    IN  IF query_content = <<>> \/ doc_content = <<>>
        THEN 0
        ELSE IF query_content_len = 0
             THEN 0
             ELSE (overlap_count * Scale) \div query_content_len
                  + (Scale \div 10) * overlap_count

\* compute_lexical_score(query, title, abstract), in score units
compute_lexical_score(query, title, abstract) ==
    LET query_tokens  == _tokenize(query)
        doc_text      == IF TruthySeq(abstract)
                         THEN title \o <<" ">> \o Val(abstract)
                         ELSE title
        doc_tokens    == _tokenize(doc_text)
        query_content == SelectNotStopword(query_tokens)
        doc_content   == SelectNotStopword(doc_tokens)
        query_set     == SetOf(query_content)
        doc_set       == SetOf(doc_content)
        overlap_count == Cardinality(query_set \cap doc_set)
        query_content_len == Cardinality(query_set)
    IN  IF query_content = <<>> \/ doc_content = <<>>
        THEN 0
        ELSE IF query_content_len = 0
             THEN 0
             ELSE (overlap_count * Scale) \div query_content_len
                  + (Scale \div 10) * overlap_count

----------------------------------------------------------------------------
(* models.py: SearchResult.  The record keeps the fields the pipeline reads *)
(* or writes; authors, doi, url, source and the per-result evidence_quality *)
(* are carried through untouched by every operation below and are left out. *)

SearchResult(paper_id, title, abstract, year, citation_count, publication_type, vector_score) ==
    [paper_id         |-> paper_id,
     title            |-> title,
     abstract         |-> abstract,
     year             |-> year,
     citation_count   |-> citation_count,
     publication_type |-> publication_type,
     vector_score     |-> vector_score,
     lexical_score    |-> 0,
     combined_score   |-> 0]

----------------------------------------------------------------------------
(* reranking_service.py: RerankingService *)

\* defaults of RerankingService.__init__, in score units
lexical_weight == (2 * Scale) \div 10

recency_bonus_2018 == (2 * Scale) \div 10

recency_bonus_2022 == (2 * Scale) \div 10

citation_bonus_50 == (2 * Scale) \div 10

citation_bonus_10 == (1 * Scale) \div 10

\* compute_metadata_bonus whose tiers are separate `if`s: a recent or highly
\* cited result gets both tiers of the dimension
compute_metadata_bonus_stacking(result) ==
    LET recency ==
            IF TruthyInt(result.year)
            THEN (IF Val(result.year) >= 2022 THEN recency_bonus_2022 ELSE 0)
                 + (IF Val(result.year) >= 2018 THEN recency_bonus_2018 ELSE 0)
            ELSE 0
        citation ==
            IF TruthyInt(result.citation_count)
            THEN (IF Val(result.citation_count) >= 50 THEN citation_bonus_50 ELSE 0)
                 + (IF Val(result.citation_count) >= 10 THEN citation_bonus_10 ELSE 0)
            ELSE 0
    IN  recency + citation

compute_metadata_bonus(result) ==
    LET recency ==
            IF TruthyInt(result.year)
            THEN IF Val(result.year) >= 2022 THEN recency_bonus_2022
                 ELSE IF Val(result.year) >= 2018 THEN recency_bonus_2018
                 ELSE 0
            ELSE 0
        citation ==
            IF TruthyInt(result.citation_count)
            THEN IF Val(result.citation_count) >= 50 THEN citation_bonus_50
                 ELSE IF Val(result.citation_count) >= 10 THEN citation_bonus_10
                 ELSE 0
            ELSE 0
    IN  recency + citation

\* below_lexical_min with `<=` in place of `<`
below_lexical_min_inclusive(lexical_score, lexical_min) == lexical_score <= lexical_min

\* `if lexical_score < lexical_min: continue`
below_lexical_min(lexical_score, lexical_min) == lexical_score < lexical_min

\* combined_score_of with the weighted term subtracted
combined_score_of_subtracting(vector_score, lexical_score, meta_bonus) ==
    vector_score - (lexical_weight * (lexical_score + meta_bonus)) \div Scale

\* `combined = result.vector_score + self.lexical_weight * (lexical_score + meta_bonus)`
combined_score_of(vector_score, lexical_score, meta_bonus) ==
    vector_score + (lexical_weight * (lexical_score + meta_bonus)) \div Scale

\* rerank_loop that builds `combined` on the result's combined_score, the
\* field it writes, instead of its vector_score
RECURSIVE rerank_loop_accumulating(_, _, _, _, _, _)
rerank_loop_accumulating(query, h, refs, i, lexical_min, acc) ==
    IF i > Len(refs)
    THEN [heap |-> h, reranked |-> acc]
    ELSE LET ref           == refs[i]
             result        == h[ref]
             lexical_score == compute_lexical_score(query, result.title, result.abstract)
         IN  IF below_lexical_min(lexical_score, lexical_min)
             THEN rerank_loop_accumulating(query, h, refs, i + 1, lexical_min, acc)
             ELSE LET meta_bonus == compute_metadata_bonus(result)
                      combined   == combined_score_of(result.combined_score,
                                                      lexical_score, meta_bonus)
                      updated    == [result EXCEPT !.lexical_score = lexical_score,
                                                   !.combined_score = combined]
                  IN  rerank_loop_accumulating(query, [h EXCEPT ![ref] = updated],
                                               refs, i + 1, lexical_min,
                                               Append(acc, ref))

\* rerank_loop that stores `combined` in the result's vector_score as well
RECURSIVE rerank_loop_overwriting_vector_score(_, _, _, _, _, _)
rerank_loop_overwriting_vector_score(query, h, refs, i, lexical_min, acc) ==
    IF i > Len(refs)
    THEN [heap |-> h, reranked |-> acc]
    ELSE LET ref           == refs[i]
             result        == h[ref]
             lexical_score == compute_lexical_score(query, result.title, result.abstract)
         IN  IF below_lexical_min(lexical_score, lexical_min)
             THEN rerank_loop_overwriting_vector_score(query, h, refs, i + 1,
                                                       lexical_min, acc)
             ELSE LET meta_bonus == compute_metadata_bonus(result)
                      combined   == combined_score_of(result.vector_score,
                                                      lexical_score, meta_bonus)
                      updated    == [result EXCEPT !.lexical_score = lexical_score,
                                                   !.combined_score = combined,
                                                   !.vector_score = combined]
                  IN  rerank_loop_overwriting_vector_score(
                          query, [h EXCEPT ![ref] = updated], refs, i + 1,
                          lexical_min, Append(acc, ref))

\* The for loop of rerank from position i on: h is the heap as mutated so far,
\* acc the list `reranked` built so far.
RECURSIVE rerank_loop(_, _, _, _, _, _)
rerank_loop(query, h, refs, i, lexical_min, acc) ==
    IF i > Len(refs)
    THEN [heap |-> h, reranked |-> acc]
    ELSE LET ref           == refs[i]
             result        == h[ref]
             lexical_score == compute_lexical_score(query, result.title, result.abstract)
         IN  IF below_lexical_min(lexical_score, lexical_min)
             THEN rerank_loop(query, h, refs, i + 1, lexical_min, acc)
             ELSE LET meta_bonus == compute_metadata_bonus(result)
                      combined   == combined_score_of(result.vector_score,
                                                      lexical_score, meta_bonus)
                      updated    == [result EXCEPT !.lexical_score = lexical_score,
                                                   !.combined_score = combined]
                  IN  rerank_loop(query, [h EXCEPT ![ref] = updated], refs, i + 1,
                                  lexical_min, Append(acc, ref))

\* insert_descending that passes only strictly greater keys: equal keys end
\* up in reverse order (sort ascending, then reverse the list)
RECURSIVE insert_descending_unstable(_, _, _)
insert_descending_unstable(h, sorted, ref) ==
    IF sorted = <<>>
    THEN <<ref>>
    ELSE IF h[Head(sorted)].combined_score > h[ref].combined_score
         THEN <<Head(sorted)>> \o insert_descending_unstable(h, Tail(sorted), ref)
         ELSE <<ref>> \o sorted

\* One insertion of list.sort(key=combined_score, reverse=True): ref goes
\* behind every element whose key is >= its own, which keeps equal keys in
\* their original order (Python's sort is stable, also with reverse=True).
RECURSIVE insert_descending(_, _, _)
insert_descending(h, sorted, ref) ==
    IF sorted = <<>>
    THEN <<ref>>
    ELSE IF h[Head(sorted)].combined_score >= h[ref].combined_score
         THEN <<Head(sorted)>> \o insert_descending(h, Tail(sorted), ref)
         ELSE <<ref>> \o sorted

RECURSIVE sort_from(_, _, _, _)
sort_from(h, refs, i, sorted) ==
    IF i > Len(refs)
    THEN sorted
    ELSE sort_from(h, refs, i + 1, insert_descending(h, sorted, refs[i]))

\* `reranked.sort(key=lambda r: r.combined_score, reverse=True)`
sort_by_combined_score(h, refs) == sort_from(h, refs, 1, <<>>)

\* RerankingService.rerank: the heap after the in-place updates and the
\* returned list.
rerank(query, h, refs, lexical_min) ==
    LET looped == rerank_loop(query, h, refs, 1, lexical_min, <<>>)
    IN  [heap     |-> looped.heap,
         reranked |-> sort_by_combined_score(looped.heap, looped.reranked)]

\* Python's `pat in s` on strings
Contains(s, pat) ==
    \E i \in 0..(Len(s) - Len(pat)) : SubSeq(s, i + 1, i + Len(pat)) = pat

current_year == 2025

\* Python's round() of score2 / 2: halves go to the even neighbour.
round_half_even(score2) ==
    IF score2 % 2 = 0
    THEN score2 \div 2
    ELSE LET k == score2 \div 2 IN IF k % 2 = 0 THEN k ELSE k + 1

\* publication-type class of one result: the if/elif chain of the loop
evidence_class(result) ==
    LET pub_type == IF TruthySeq(result.publication_type)
                    THEN lower(Val(result.publication_type))
                    ELSE <<>>
    IN  IF Contains(pub_type, <<"m", "e", "t", "a", "-", "a", "n", "a", "l", "y", "s", "i", "s">>)
           \/ Contains(pub_type, <<"m", "e", "t", "a", " ", "a", "n", "a", "l", "y", "s", "i", "s">>)
        THEN "meta_analyses"
        ELSE IF Contains(pub_type, <<"s", "y", "s", "t", "e", "m", "a", "t", "i", "c", " ", "r", "e", "v", "i", "e", "w">>)
        THEN "systematic_reviews"
        ELSE IF Contains(pub_type, <<"r", "a", "n", "d", "o", "m", "i", "z", "e", "d", " ", "c", "o", "n", "t", "r", "o", "l", "l", "e", "d", " ", "t", "r", "i", "a", "l">>)
                \/ Contains(pub_type, <<"r", "c", "t">>)
        THEN "rcts"
        ELSE IF Contains(pub_type, <<"r", "e", "v", "i", "e", "w">>)
        THEN "other_reviews"
        ELSE "none"

\* assess_evidence_quality whose hierarchy tiers are separate `if`s that all
\* add up, returning round(score) without the cap
assess_evidence_quality_stacking_uncapped(h, refs) ==
    IF refs = <<>>
    THEN 0
    ELSE
    LET idx == 1..Len(refs)
        citations(i) == IF TruthyInt(h[refs[i]].citation_count)
                        THEN Val(h[refs[i]].citation_count) ELSE 0
        year(i)      == IF TruthyInt(h[refs[i]].year) THEN Val(h[refs[i]].year) ELSE 0
        count(class) == Cardinality({i \in idx : evidence_class(h[refs[i]]) = class})
        meta_analyses      == count("meta_analyses")
        systematic_reviews == count("systematic_reviews")
        rcts               == count("rcts")
        other_reviews      == count("other_reviews")
        high_citation_studies     == Cardinality({i \in idx : citations(i) >= 100})
        moderate_citation_studies ==
            Cardinality({i \in idx : citations(i) < 100 /\ citations(i) >= 50})
        recent_studies     == Cardinality({i \in idx : year(i) >= current_year - 3})
        base2 == IF Len(refs) >= 5 THEN 2 ELSE IF Len(refs) >= 3 THEN 1 ELSE 0
        hierarchy2 ==
            (IF meta_analyses >= 2 THEN 5 ELSE 0)
            + (IF meta_analyses >= 1 THEN 4 ELSE 0)
            + (IF systematic_reviews >= 2 THEN 4 ELSE 0)
            + (IF systematic_reviews >= 1 THEN 3 ELSE 0)
            + (IF rcts >= 3 THEN 3 ELSE 0)
            + (IF rcts >= 1 THEN 2 ELSE 0)
            + (IF other_reviews >= 2 THEN 2 ELSE 0)
            + (IF other_reviews >= 1 THEN 1 ELSE 0)
        citation2 ==
            IF high_citation_studies >= 2 THEN 2
            ELSE IF high_citation_studies >= 1 THEN 1
            ELSE IF moderate_citation_studies >= 2 THEN 1
            ELSE 0
        recency2 == IF recent_studies >= 2 THEN 1 ELSE 0
        score2 == base2 + hierarchy2 + citation2 + recency2
        rounded == round_half_even(score2)
    IN  rounded

\* assess_evidence_quality giving a single meta-analysis 0.5 instead of 2.0
assess_evidence_quality_single_meta_low(h, refs) ==
    IF refs = <<>>
    THEN 0
    ELSE
    LET idx == 1..Len(refs)
        citations(i) == IF TruthyInt(h[refs[i]].citation_count)
                        THEN Val(h[refs[i]].citation_count) ELSE 0
        year(i)      == IF TruthyInt(h[refs[i]].year) THEN Val(h[refs[i]].year) ELSE 0
        count(class) == Cardinality({i \in idx : evidence_class(h[refs[i]]) = class})
        meta_analyses      == count("meta_analyses")
        systematic_reviews == count("systematic_reviews")
        rcts               == count("rcts")
        other_reviews      == count("other_reviews")
        high_citation_studies     == Cardinality({i \in idx : citations(i) >= 100})
        moderate_citation_studies ==
            Cardinality({i \in idx : citations(i) < 100 /\ citations(i) >= 50})
        recent_studies     == Cardinality({i \in idx : year(i) >= current_year - 3})
        base2 == IF Len(refs) >= 5 THEN 2 ELSE IF Len(refs) >= 3 THEN 1 ELSE 0
        hierarchy2 ==
            IF meta_analyses >= 2 THEN 5
            ELSE IF meta_analyses >= 1 THEN 1
            ELSE IF systematic_reviews >= 2 THEN 4
            ELSE IF systematic_reviews >= 1 THEN 3
            ELSE IF rcts >= 3 THEN 3
            ELSE IF rcts >= 1 THEN 2
            ELSE IF other_reviews >= 2 THEN 2
            ELSE IF other_reviews >= 1 THEN 1
            ELSE 0
        citation2 ==
            IF high_citation_studies >= 2 THEN 2
            ELSE IF high_citation_studies >= 1 THEN 1
            ELSE IF moderate_citation_studies >= 2 THEN 1
            ELSE 0
        recency2 == IF recent_studies >= 2 THEN 1 ELSE 0
        score2 == base2 + hierarchy2 + citation2 + recency2
        rounded == round_half_even(score2)
    IN  IF 5 < rounded THEN 5 ELSE rounded

\* `citations = result.citation_count or 0`
citations_of(result) ==
    IF TruthyInt(result.citation_count) THEN Val(result.citation_count) ELSE 0

\* `year = result.year or 0`
year_of(result) == IF TruthyInt(result.year) THEN Val(result.year) ELSE 0

\* the counter the loop of assess_evidence_quality keeps for one class
class_count(h, refs, class) ==
    Cardinality({i \in 1..Len(refs) : evidence_class(h[refs[i]]) = class})

\* "Base score from number of results", times 2
base_component2(h, refs) ==
    IF Len(refs) >= 5 THEN 2 ELSE IF Len(refs) >= 3 THEN 1 ELSE 0

\* hierarchy_component2 whose tiers are separate `if`s: every tier that
\* applies is added
hierarchy_component2_stacking(meta_analyses, systematic_reviews, rcts, other_reviews) ==
    (IF meta_analyses >= 2 THEN 5 ELSE 0)
    + (IF meta_analyses >= 1 THEN 4 ELSE 0)
    + (IF systematic_reviews >= 2 THEN 4 ELSE 0)
    + (IF systematic_reviews >= 1 THEN 3 ELSE 0)
    + (IF rcts >= 3 THEN 3 ELSE 0)
    + (IF rcts >= 1 THEN 2 ELSE 0)
    + (IF other_reviews >= 2 THEN 2 ELSE 0)
    + (IF other_reviews >= 1 THEN 1 ELSE 0)

\* "Evidence hierarchy (most important)": the if/elif chain, times 2
hierarchy_component2(meta_analyses, systematic_reviews, rcts, other_reviews) ==
    IF meta_analyses >= 2 THEN 5
    ELSE IF meta_analyses >= 1 THEN 4
    ELSE IF systematic_reviews >= 2 THEN 4
    ELSE IF systematic_reviews >= 1 THEN 3
    ELSE IF rcts >= 3 THEN 3
    ELSE IF rcts >= 1 THEN 2
    ELSE IF other_reviews >= 2 THEN 2
    ELSE IF other_reviews >= 1 THEN 1
    ELSE 0

\* "Citation impact", times 2
citation_component2(h, refs) ==
    LET idx == 1..Len(refs)
        high_citation_studies ==
            Cardinality({i \in idx : citations_of(h[refs[i]]) >= 100})
        moderate_citation_studies ==
            Cardinality({i \in idx : /\ citations_of(h[refs[i]]) < 100
                                     /\ citations_of(h[refs[i]]) >= 50})
    IN  IF high_citation_studies >= 2 THEN 2
        ELSE IF high_citation_studies >= 1 THEN 1
        ELSE IF moderate_citation_studies >= 2 THEN 1
        ELSE 0

\* "Recency bonus (current evidence)", times 2
recency_component2(h, refs) ==
    LET recent_studies ==
            Cardinality({i \in 1..Len(refs) : year_of(h[refs[i]]) >= current_year - 3})
    IN  IF recent_studies >= 2 THEN 1 ELSE 0

\* the float `score` before rounding, kept as score2 = 2 * score, every
\* component being a multiple of 0.5
evidence_score2(h, refs) ==
    base_component2(h, refs)
    + hierarchy_component2(class_count(h, refs, "meta_analyses"),
                           class_count(h, refs, "systematic_reviews"),
                           class_count(h, refs, "rcts"),
                           class_count(h, refs, "other_reviews"))
    + citation_component2(h, refs)
    + recency_component2(h, refs)

\* RerankingService.assess_evidence_quality
assess_evidence_quality(h, refs) ==
    IF refs = <<>>
    THEN 0
    ELSE LET rounded == round_half_even(evidence_score2(h, refs))
         IN  IF 5 < rounded THEN 5 ELSE rounded

----------------------------------------------------------------------------
(* Bounds and input domains *)

\* largest request.limit tried (the smallest is -1)
MaxLimit == 2

\* largest number of points the vector store hands back in one call
MaxCands == 3

Range(f) == {f[i] : i \in DOMAIN f}

Min(a, b) == IF a < b THEN a ELSE b

Max(a, b) == IF a < b THEN b ELSE a

\* "Gut-IBS"
QueryGutIbs == <<"G", "u", "t", "-", "I", "B", "S">>

\* "the gut"
QueryTheGut == <<"t", "h", "e", " ", "g", "u", "t">>

Queries == {QueryGutIbs, QueryTheGut}

TypeReview == <<"R", "e", "v", "i", "e", "w">>

TypeMetaAnalysis == <<"M", "e", "t", "a", "-", "A", "n", "a", "l", "y", "s", "i", "s">>

\* "Gut IBS."
TitleGutIbs == <<"G", "u", "t", " ", "I", "B", "S", ".">>

\* The stored points the vector store can return.  A payload holds the keys
\* read by _to_search_result and by the filter of QdrantManager.search; a key
\* that is not in the stored payload is None.  Both spellings of the citation
\* and publication-type keys occur in stored payloads (prepare_paper_payload
\* writes citation_count / publication_types, the search filter reads
\* citationcount / publicationtypes).
Payload(paper_id, title, abstract, year, citation_count, citationcount, publication_types, publicationtypes) ==
    [paper_id          |-> paper_id,
     title             |-> title,
     abstract          |-> abstract,
     year              |-> year,
     citation_count    |-> citation_count,
     citationcount     |-> citationcount,
     publication_types |-> publication_types,
     publicationtypes  |-> publicationtypes]

Corpus ==
    { [id |-> "id1",
       payload |-> Payload(Some("p1"), Some(TitleGutIbs), None, Some(2023),
                           None, Some(0), None, Some(<<TypeReview>>))],
      [id |-> "id2",
       payload |-> Payload(Some("p2"), Some(TitleGutIbs), None, Some(2019),
                           None, Some(0), None,
                           Some(<<TypeReview, TypeMetaAnalysis>>))],
      \* "IBS in men" / "A trial"
      [id |-> "id3",
       payload |-> Payload(Some("p3"),
                           Some(<<"I", "B", "S", " ", "i", "n", " ", "m", "e", "n">>),
                           Some(<<"A", " ", "t", "r", "i", "a", "l">>), None,
                           None, None, None, Some(<<TypeMetaAnalysis>>))],
      \* "Coral", stored by prepare_paper_payload
      [id |-> "id4",
       payload |-> Payload(Some(""), Some(<<"C", "o", "r", "a", "l">>), Some(<<>>),
                           Some(2020), Some(60), None, None, None)],
      \* a paper stored with "title": null
      [id |-> "id5",
       payload |-> Payload(Some("p5"), Null, None, Some(2021),
                           None, None, None, None)],
      \* a payload that carries both spellings of the citation key
      [id |-> "id6",
       payload |-> Payload(Some("p6"), Some(TitleGutIbs), None, None,
                           Some(5), Some(60), None, None)] }

\* similarity scores the store can report: 0.85 and 0.80
ScoreSet == {(85 * Scale) \div 100, (80 * Scale) \div 100}

\* models.py: SearchRequest.  No field carries a validator, so every value of
\* the field's type reaches search().
Requests ==
    [query              : Queries,
     limit              : (-1)..MaxLimit,
     year_from          : {None, Some(2020)},
     year_to            : {None, Some(2019), Some(0)},
     min_citations      : {None, Some(50)},
     lexical_min        : {(5 * Scale) \div 100, (6 * Scale) \div 10},
     publication_types  : {None, Some(<<TypeReview>>),
                           Some(<<TypeReview, TypeMetaAnalysis>>)},
     use_reranking      : BOOLEAN,
     use_lexical_filter : BOOLEAN]

----------------------------------------------------------------------------
(* search_service.py: SearchService *)

\* SearchService._build_filters; a key that is not set is None
_build_filters(req) ==
    [year_gte          |-> IF TruthyInt(req.year_from) THEN req.year_from ELSE None,
     year_lte          |-> IF TruthyInt(req.year_to) THEN req.year_to ELSE None,
     citations_gte     |-> IF TruthyInt(req.min_citations) THEN req.min_citations ELSE None,
     publication_types |-> IF TruthySeq(req.publication_types)
                           THEN req.publication_types ELSE None]

\* ", ".join(pub_types)
RECURSIVE join(_)
join(pub_types) ==
    IF Len(pub_types) = 1
    THEN Head(pub_types)
    ELSE Head(pub_types) \o <<",", " ">> \o join(Tail(pub_types))

\* SearchService._to_search_result
_to_search_result(raw) ==
    LET payload   == raw.payload
        pub_types == IF TruthySeq(payload.publication_types)
                     THEN payload.publication_types
                     ELSE payload.publicationtypes
    IN  SearchResult(
            IF payload.paper_id # None /\ Val(payload.paper_id) # ""
            THEN Val(payload.paper_id) ELSE raw.id,
            IF payload.title = None THEN <<>>
            ELSE IF payload.title = Null THEN Null ELSE Val(payload.title),
            payload.abstract,
            payload.year,
            IF TruthyInt(payload.citation_count)
            THEN payload.citation_count ELSE payload.citationcount,
            IF TruthySeq(pub_types) THEN Some(join(Val(pub_types))) ELSE None,
            raw.score)

\* models.py: SearchResult validation on construction.  `title: str` accepts
\* a string only; the Optional fields accept None.
validates(fields) == fields.title # Null

\* Python's results[:limit]
truncate(refs, limit) ==
    IF limit >= 0
    THEN SubSeq(refs, 1, Min(limit, Len(refs)))
    ELSE SubSeq(refs, 1, Max(0, Len(refs) + limit))

----------------------------------------------------------------------------
(* qdrant_manager.py: QdrantManager.search *)

\* the FieldCondition list built from the filters dict
filter_conditions(f) ==
    (IF f.year_gte # None
     THEN <<[key |-> "year", kind |-> "gte", value |-> Val(f.year_gte)]>> ELSE <<>>)
    \o
    (IF f.year_lte # None
     THEN <<[key |-> "year", kind |-> "lte", value |-> Val(f.year_lte)]>> ELSE <<>>)
    \o
    (IF f.citations_gte # None
     THEN <<[key |-> "citationcount", kind |-> "gte", value |-> Val(f.citations_gte)]>>
     ELSE <<>>)
    \o
    (IF f.publication_types # None
     THEN [i \in 1..Len(Val(f.publication_types)) |->
              [key |-> "publicationtypes", kind |-> "match",
               value |-> Val(f.publication_types)[i]]]
     ELSE <<>>)

\* one FieldCondition against a stored payload: a Range needs the key to hold
\* a number in the range, a MatchValue needs the key to hold the value (as one
\* of its elements when the key holds a list)
condition_holds(payload, cond) ==
    /\ payload[cond.key] # None
    /\ CASE cond.kind = "gte"   -> Val(payload[cond.key]) >= cond.value
         [] cond.kind = "lte"   -> Val(payload[cond.key]) <= cond.value
         [] cond.kind = "match" -> cond.value \in Range(Val(payload[cond.key]))

\* `Filter(must=filter_conditions)`: every condition has to hold
search_filter_passes(payload, conds) ==
    \A k \in 1..Len(conds) : condition_holds(payload, conds[k])

\* The lists QdrantManager.search can return for a filter and a limit: points
\* of the collection that pass the filter, no point twice, at most `limit`
\* of them, scores in descending order.
formatted_results(f, limit) ==
    LET matching == {p \in Corpus : search_filter_passes(p.payload, filter_conditions(f))}
        lengths  == 0..Min(Max(0, limit), MaxCands)
    IN  UNION { { [i \in 1..n |-> [id |-> ps[i].id, score |-> ss[i], payload |-> ps[i].payload]] :
                    ps \in {q \in [1..n -> matching] :
                               \A i, j \in 1..n : i # j => q[i] # q[j]},
                    ss \in {t \in [1..n -> ScoreSet] :
                               \A i, j \in 1..n : i < j => t[i] >= t[j]} }
              : n \in lengths }

----------------------------------------------------------------------------
(* One call of POST /evidence/search: routes.evidence_search awaiting        *)
(* SearchService.search.  pc follows the statements of search():             *)
(*   idle -> encode -> qdrant -> convert -> (rerank ->) truncate -> returned *)
(* and any raise leads to "raised", which the route's except turns into      *)
(* "error".                                                                  *)

Init ==
    /\ pc = "idle"
    /\ request = None
    /\ filters = None
    /\ raw_results = <<>>
    /\ heap = <<>>
    /\ results = <<>>
    /\ reranked_out = None
    /\ response = None
    /\ http_status = 0
    /\ encoder_outcome = "none"
    /\ store_outcome = "none"
    /\ call = None
    /\ ret = None
    /\ encoder_calls = 0
    /\ store_calls = 0
    /\ events = <<>>
    /\ tasks = <<>>

\* the route is entered with a parsed SearchRequest and calls search()
evidence_search(req) ==
    /\ pc = "idle"
    /\ request' = req
    /\ pc' = "encode"
    /\ UNCHANGED <<filters, raw_results, heap, results, reranked_out, response,
                   http_status, encoder_outcome, store_outcome>>
    /\ UNCHANGED <<call, ret, events, tasks>>
    /\ UNCHANGED <<encoder_calls, store_calls>>

\* `self._encoder.encode_queries(...)` returns; `filters = self._build_filters(request)`
encode_queries_returns ==
    /\ pc = "encode"
    /\ encoder_outcome' = "returned"
    /\ filters' = _build_filters(request)
    /\ pc' = "qdrant"
    /\ UNCHANGED <<request, raw_results, heap, results, reranked_out, response,
                   http_status, store_outcome>>
    /\ UNCHANGED <<call, ret, events, tasks>>
    /\ encoder_calls' = encoder_calls + 1
    /\ UNCHANGED store_calls

\* encode_queries_raises followed by another attempt: search() stays at the
\* encoder call
encode_queries_raises_retried ==
    /\ pc = "encode"
    /\ encoder_outcome' = "raised"
    /\ pc' = "encode"
    /\ UNCHANGED <<request, filters, raw_results, heap, results, reranked_out,
                   response, http_status, store_outcome>>
    /\ UNCHANGED <<call, ret, events, tasks>>
    /\ encoder_calls' = encoder_calls + 1
    /\ UNCHANGED store_calls

\* `self._encoder.encode_queries(...)` raises: search() has no handler
encode_queries_raises ==
    /\ pc = "encode"
    /\ encoder_outcome' = "raised"
    /\ pc' = "raised"
    /\ UNCHANGED <<request, filters, raw_results, heap, results, reranked_out,
                   response, http_status, store_outcome>>
    /\ UNCHANGED <<call, ret, events, tasks>>
    /\ encoder_calls' = encoder_calls + 1
    /\ UNCHANGED store_calls

\* `raw_results = await self._qdrant.search(..., limit=request.limit * 3, ...)`
qdrant_search_returns ==
    /\ pc = "qdrant"
    /\ \E points \in formatted_results(filters, request.limit * 3) :
           raw_results' = points
    /\ store_outcome' = "returned"
    /\ pc' = "convert"
    /\ UNCHANGED <<request, filters, heap, results, reranked_out, response,
                   http_status, encoder_outcome>>
    /\ UNCHANGED <<call, ret, events, tasks>>
    /\ store_calls' = store_calls + 1
    /\ UNCHANGED encoder_calls

\* qdrant_search_raises with the failure swallowed as "no candidates"
qdrant_search_raises_masked ==
    /\ pc = "qdrant"
    /\ store_outcome' = "raised"
    /\ raw_results' = <<>>
    /\ pc' = "convert"
    /\ UNCHANGED <<request, filters, heap, results, reranked_out, response,
                   http_status, encoder_outcome>>
    /\ UNCHANGED <<call, ret, events, tasks>>
    /\ store_calls' = store_calls + 1
    /\ UNCHANGED encoder_calls

\* the vector store call raises: search() has no handler
qdrant_search_raises ==
    /\ pc = "qdrant"
    /\ store_outcome' = "raised"
    /\ pc' = "raised"
    /\ UNCHANGED <<request, filters, raw_results, heap, results, reranked_out,
                   response, http_status, encoder_outcome>>
    /\ UNCHANGED <<call, ret, events, tasks>>
    /\ store_calls' = store_calls + 1
    /\ UNCHANGED encoder_calls

\* `results = [self._to_search_result(r) for r in raw_results]`
convert_results ==
    /\ pc = "convert"
    /\ \A i \in 1..Len(raw_results) : validates(_to_search_result(raw_results[i]))
    /\ heap' = [i \in 1..Len(raw_results) |-> _to_search_result(raw_results[i])]
    /\ results' = [i \in 1..Len(raw_results) |-> i]
    /\ pc' = IF request.use_reranking THEN "rerank" ELSE "truncate"
    /\ UNCHANGED <<request, filters, raw_results, reranked_out, response,
                   http_status, encoder_outcome, store_outcome>>
    /\ UNCHANGED <<call, ret, events, tasks>>
    /\ UNCHANGED <<encoder_calls, store_calls>>

\* `_to_search_result(r)` raising pydantic's ValidationError out of search()
convert_results_raises ==
    /\ pc = "convert"
    /\ \E i \in 1..Len(raw_results) : ~validates(_to_search_result(raw_results[i]))
    /\ pc' = "raised"
    /\ UNCHANGED <<request, filters, raw_results, heap, results, reranked_out,
                   response, http_status, encoder_outcome, store_outcome>>
    /\ UNCHANGED <<call, ret, events, tasks>>
    /\ UNCHANGED <<encoder_calls, store_calls>>

\* the floor handed to rerank
rerank_lexical_min(req) == IF req.use_lexical_filter THEN req.lexical_min ELSE 0

\* apply_reranking handed the list already cut to request.limit
apply_reranking_of_truncated ==
    /\ pc = "rerank"
    /\ LET out == rerank(request.query, heap, truncate(results, request.limit),
                      rerank_lexical_min(request))
       IN  /\ heap' = out.heap
           /\ results' = out.reranked
           /\ reranked_out' = Some(out.reranked)
    /\ pc' = "truncate"
    /\ UNCHANGED <<request, filters, raw_results, response, http_status,
                   encoder_outcome, store_outcome>>
    /\ UNCHANGED <<call, ret, events, tasks>>
    /\ UNCHANGED <<encoder_calls, store_calls>>

\* `results = self._reranker.rerank(query=..., results=results, lexical_min=...)`
apply_reranking ==
    /\ pc = "rerank"
    /\ LET out == rerank(request.query, heap, results, rerank_lexical_min(request))
       IN  /\ heap' = out.heap
           /\ results' = out.reranked
           /\ reranked_out' = Some(out.reranked)
    /\ pc' = "truncate"
    /\ UNCHANGED <<request, filters, raw_results, response, http_status,
                   encoder_outcome, store_outcome>>
    /\ UNCHANGED <<call, ret, events, tasks>>
    /\ UNCHANGED <<encoder_calls, store_calls>>

\* return_response counting the candidates the store returned as total_found
return_response_total_candidates ==
    /\ pc = "truncate"
    /\ LET limited == truncate(results, request.limit)
       IN  /\ results' = limited
           /\ response' = Some([query            |-> request.query,
                                results          |-> limited,
                                total_found      |-> Len(raw_results),
                                evidence_quality |-> assess_evidence_quality(heap, limited)])
    /\ http_status' = 200
    /\ pc' = "returned"
    /\ UNCHANGED <<request, filters, raw_results, heap, reranked_out,
                   encoder_outcome, store_outcome>>
    /\ UNCHANGED <<call, ret, events, tasks>>
    /\ UNCHANGED <<encoder_calls, store_calls>>

\* return_response grading the list it had before `results[:request.limit]`
return_response_grading_untruncated ==
    /\ pc = "truncate"
    /\ LET limited == truncate(results, request.limit)
       IN  /\ results' = limited
           /\ response' = Some([query            |-> request.query,
                                results          |-> limited,
                                total_found      |-> Len(limited),
                                evidence_quality |-> assess_evidence_quality(heap, results)])
    /\ http_status' = 200
    /\ pc' = "returned"
    /\ UNCHANGED <<request, filters, raw_results, heap, reranked_out,
                   encoder_outcome, store_outcome>>
    /\ UNCHANGED <<call, ret, events, tasks>>
    /\ UNCHANGED <<encoder_calls, store_calls>>

\* `results = results[:request.limit]`, the evidence grade, the SearchResponse;
\* the route returns it (200)
return_response ==
    /\ pc = "truncate"
    /\ LET limited == truncate(results, request.limit)
       IN  /\ results' = limited
           /\ response' = Some([query            |-> request.query,
                                results          |-> limited,
                                total_found      |-> Len(limited),
                                evidence_quality |-> assess_evidence_quality(heap, limited)])
    /\ http_status' = 200
    /\ pc' = "returned"
    /\ UNCHANGED <<request, filters, raw_results, heap, reranked_out,
                   encoder_outcome, store_outcome>>
    /\ UNCHANGED <<call, ret, events, tasks>>
    /\ UNCHANGED <<encoder_calls, store_calls>>

\* the status the route's `except Exception` answers with
HTTP_500_INTERNAL_SERVER_ERROR == 500

\* `except Exception as e: raise HTTPException(status_code=500, ...)`
evidence_search_except ==
    /\ pc = "raised"
    /\ http_status' = HTTP_500_INTERNAL_SERVER_ERROR
    /\ pc' = "error"
    /\ UNCHANGED <<request, filters, raw_results, heap, results, reranked_out,
                   response, encoder_outcome, store_outcome>>
    /\ UNCHANGED <<call, ret, events, tasks>>
    /\ UNCHANGED <<encoder_calls, store_calls>>

Next ==
    \/ \E req \in Requests : evidence_search(req)
    \/ encode_queries_returns
    \/ encode_queries_raises
    \/ qdrant_search_returns
    \/ qdrant_search_raises
    \/ convert_results
    \/ convert_results_raises
    \/ apply_reranking
    \/ return_response
    \/ evidence_search_except

Spec == Init /\ [][Next]_vars

----------------------------------------------------------------------------
(* SearchService.search_streaming: an async generator around one call of    *)
(* search().  pc follows the generator:                                     *)
(*   idle -> (the positions of search()) -> streaming -> stream_closed      *)
(* and a raise inside search() leads from "raised" to "stream_closed".      *)

\* `yield StreamingSearchEvent(event_type="status", data="Starting search...")`,
\* then `await self.search(request)` is entered
search_streaming_yield_status(req) ==
    /\ pc = "idle"
    /\ events' = <<[event_type |-> "status", data |-> "Starting search..."]>>
    /\ request' = req
    /\ pc' = "encode"
    /\ UNCHANGED <<filters, raw_results, heap, results, reranked_out, response,
                   http_status, encoder_outcome, store_outcome, call, ret,
                   encoder_calls, store_calls, tasks>>

\* the end of search() inside the generator: truncation, grade, and
\* `response = await self.search(request)` is bound
search_streaming_search_returns ==
    /\ pc = "truncate"
    /\ LET limited == truncate(results, request.limit)
       IN  /\ results' = limited
           /\ response' = Some([query            |-> request.query,
                                results          |-> limited,
                                total_found      |-> Len(limited),
                                evidence_quality |-> assess_evidence_quality(heap, limited)])
    /\ pc' = "streaming"
    /\ UNCHANGED <<request, filters, raw_results, heap, reranked_out, http_status,
                   encoder_outcome, store_outcome, call, ret, encoder_calls,
                   store_calls, events, tasks>>

\* number of "result" events yielded so far
results_yielded == Len(SelectSeq(events, LAMBDA e : e.event_type = "result"))

\* one turn of `for result in response.results: yield ...(event_type="result", data=result)`
search_streaming_yield_result ==
    /\ pc = "streaming"
    /\ results_yielded < Len(Val(response).results)
    /\ events' = Append(events,
                        [event_type |-> "result",
                         data |-> heap[Val(response).results[results_yielded + 1]]])
    /\ UNCHANGED <<pc, request, filters, raw_results, heap, results, reranked_out,
                   response, http_status, encoder_outcome, store_outcome, call,
                   ret, encoder_calls, store_calls, tasks>>

\* search_streaming_yield_done that does not wait for the end of the loop
search_streaming_yield_done_early ==
    /\ pc = "streaming"
    /\ events' = Append(events,
                        [event_type |-> "done",
                         data |-> [total |-> Val(response).total_found,
                                   evidence_quality |-> Val(response).evidence_quality]])
    /\ pc' = "stream_closed"
    /\ UNCHANGED <<request, filters, raw_results, heap, results, reranked_out,
                   response, http_status, encoder_outcome, store_outcome, call,
                   ret, encoder_calls, store_calls, tasks>>

\* the loop is over: `yield StreamingSearchEvent(event_type="done", data={...})`
\* and the generator ends
search_streaming_yield_done ==
    /\ pc = "streaming"
    /\ results_yielded = Len(Val(response).results)
    /\ events' = Append(events,
                        [event_type |-> "done",
                         data |-> [total |-> Val(response).total_found,
                                   evidence_quality |-> Val(response).evidence_quality]])
    /\ pc' = "stream_closed"
    /\ UNCHANGED <<request, filters, raw_results, heap, results, reranked_out,
                   response, http_status, encoder_outcome, store_outcome, call,
                   ret, encoder_calls, store_calls, tasks>>

\* `except Exception as e: yield StreamingSearchEvent(event_type="error", data=str(e))`
search_streaming_yield_error ==
    /\ pc = "raised"
    /\ events' = Append(events, [event_type |-> "error", data |-> "str(e)"])
    /\ pc' = "stream_closed"
    /\ UNCHANGED <<request, filters, raw_results, heap, results, reranked_out,
                   response, http_status, encoder_outcome, store_outcome, call,
                   ret, encoder_calls, store_calls, tasks>>

StreamNext ==
    \/ \E req \in Requests : search_streaming_yield_status(req)
    \/ encode_queries_returns
    \/ encode_queries_raises
    \/ qdrant_search_returns
    \/ qdrant_search_raises
    \/ convert_results
    \/ convert_results_raises
    \/ apply_reranking
    \/ search_streaming_search_returns
    \/ search_streaming_yield_result
    \/ search_streaming_yield_done
    \/ search_streaming_yield_error

StreamSpec == Init /\ [][StreamNext]_vars

----------------------------------------------------------------------------
(* intent_service.py: IntentService.extract_intent and its fallback *)

\* the keyword lists of _generate_fallback_intent, in the order of its
\* if/elif chain, each with the task_type it selects
TASK_TYPE_KEYWORDS ==
    <<[task_type |-> "mechanism_explanation",
       words |-> <<<<"e", "x", "p", "l", "a", "i", "n">>,
                 <<"m", "e", "c", "h", "a", "n", "i", "s", "m">>,
                 <<"h", "o", "w", " ", "d", "o", "e", "s">>,
                 <<"p", "a", "t", "h", "w", "a", "y">>>>],
      [task_type |-> "protocol",
       words |-> <<<<"p", "r", "o", "t", "o", "c", "o", "l">>,
                 <<"t", "r", "e", "a", "t", "m", "e", "n", "t">>,
                 <<"i", "n", "t", "e", "r", "v", "e", "n", "t", "i", "o", "n">>>>],
      [task_type |-> "clinical_summary",
       words |-> <<<<"s", "u", "m", "m", "a", "r", "i", "z", "e">>,
                 <<"s", "u", "m", "m", "a", "r", "y">>,
                 <<"o", "v", "e", "r", "v", "i", "e", "w">>>>],
      [task_type |-> "research_review",
       words |-> <<<<"r", "e", "s", "e", "a", "r", "c", "h">>,
                 <<"s", "t", "u", "d", "i", "e", "s">>,
                 <<"e", "v", "i", "d", "e", "n", "c", "e">>>>]>>

\* the keyword lists of the clinical_context chain, in order
CLINICAL_CONTEXT_KEYWORDS ==
    <<[clinical_context |-> "metabolic_health",
       words |-> <<<<"m", "e", "t", "a", "b", "o", "l", "i", "c">>,
                 <<"i", "n", "s", "u", "l", "i", "n">>,
                 <<"g", "l", "u", "c", "o", "s", "e">>,
                 <<"d", "i", "a", "b", "e", "t", "e", "s">>>>],
      [clinical_context |-> "cardiovascular",
       words |-> <<<<"h", "e", "a", "r", "t">>,
                 <<"c", "a", "r", "d", "i", "o", "v", "a", "s", "c", "u", "l", "a", "r">>,
                 <<"b", "l", "o", "o", "d", " ", "p", "r", "e", "s", "s", "u", "r", "e">>>>],
      [clinical_context |-> "neurological",
       words |-> <<<<"b", "r", "a", "i", "n">>,
                 <<"c", "o", "g", "n", "i", "t", "i", "v", "e">>,
                 <<"n", "e", "u", "r", "o">>>>],
      [clinical_context |-> "longevity",
       words |-> <<<<"a", "g", "i", "n", "g">>,
                 <<"l", "o", "n", "g", "e", "v", "i", "t", "y">>,
                 <<"l", "i", "f", "e", "s", "p", "a", "n">>>>]>>

\* re.sub(r"<[^>]+>", " ", message): from the left, every "<" followed by at
\* least one character other than ">" and then ">" becomes one blank
RECURSIVE sub_tags(_)
sub_tags(message) ==
    IF message = <<>> THEN <<>>
    ELSE LET closes == {j \in 3..Len(message) :
                           /\ message[j] = ">"
                           /\ \A k \in 2..(j - 1) : message[k] # ">"}
         IN  IF message[1] = "<" /\ closes # {}
             THEN <<" ">> \o sub_tags(SubSeq(message, (CHOOSE j \in closes : TRUE) + 1,
                                             Len(message)))
             ELSE <<message[1]>> \o sub_tags(Tail(message))

\* any(word in clean_message for word in words)
any_word_in(words, clean_message) ==
    \E k \in 1..Len(words) : Contains(clean_message, words[k])

\* the if/elif chain over the keyword lists: the label of the first list with
\* a keyword in the message, or the default
first_match(chain, field, clean_message, default) ==
    LET hits == {k \in 1..Len(chain) : any_word_in(chain[k].words, clean_message)}
    IN  IF hits = {} THEN default
        ELSE chain[CHOOSE k \in hits : \A l \in hits : k <= l][field]

\* [a-z]
LowerLetters == {UpperToLower[c] : c \in DOMAIN UpperToLower}

\* \w on a lowercased ASCII text
WordChars == LowerLetters \cup {"0", "1", "2", "3", "4", "5", "6", "7", "8", "9", "_"}

\* set(re.findall(r"\b[a-z]{4,}\b", clean_message)): the runs of word
\* characters that are made of four or more lowercase letters only
findall_words(clean_message) ==
    {SubSeq(clean_message, i, j) : <<i, j>> \in
        {p \in (1..Len(clean_message)) \X (1..Len(clean_message)) :
            /\ p[2] - p[1] + 1 >= 4
            /\ \A k \in p[1]..p[2] : clean_message[k] \in LowerLetters
            /\ (p[1] = 1 \/ clean_message[p[1] - 1] \notin WordChars)
            /\ (p[2] = Len(clean_message) \/ clean_message[p[2] + 1] \notin WordChars)}}

\* list(set(words))[:5]: the iteration order of a set of strings is not
\* fixed, so any five of the words in any order (all of them when there are
\* five or fewer)
first_five_of_set(words) ==
    LET n == IF Cardinality(words) < 5 THEN Cardinality(words) ELSE 5
    IN  {s \in [1..n -> words] : \A a, b \in 1..n : s[a] = s[b] => a = b}

\* _generate_fallback_intent(message): the dicts it can return
_generate_fallback_intent(message) ==
    LET clean_message == lower(sub_tags(message))
    IN  {[task_type        |-> Some(first_match(TASK_TYPE_KEYWORDS, "task_type",
                                                clean_message, "general_question")),
          entities         |-> Some(entities),
          clinical_context |-> Some(first_match(CLINICAL_CONTEXT_KEYWORDS,
                                                "clinical_context", clean_message,
                                                "general"))] :
            entities \in first_five_of_set(findall_words(clean_message))}

\* what `await self._llm.complete_json(...)` can do: raise, return a JSON
\* value that is not an object, or return an object.  An object's key is
\* absent (None), null, or holds a value; the adapter returns whatever
\* json.loads parsed.
LLMOutcomes ==
    [kind : {"raises", "non_dict"}, task_type : {None}, entities : {None},
     clinical_context : {None}]
    \cup
    [kind             : {"dict"},
     task_type        : {None, Null, Some(""), Some("protocol")},
     entities         : {None, Some(<<<<"b", "e", "r", "b", "e", "r", "i", "n", "e">>>>)},
     clinical_context : {None, Some("metabolic_health")}]

\* not intent.get("task_type")
task_type_falsy(intent) ==
    \/ intent.task_type = None
    \/ intent.task_type = Null
    \/ intent.task_type = Some("")

\* extract_intent(user_message) for one outcome of the LLM call: the dicts it
\* can return.  The message is cut to 500 characters only for the prompt.
extract_intent(user_message, outcome) ==
    IF outcome.kind = "raises" THEN _generate_fallback_intent(user_message)
    ELSE IF outcome.kind # "dict" \/ task_type_falsy(outcome)
         THEN _generate_fallback_intent(user_message)
    ELSE {[task_type        |-> outcome.task_type,
           entities         |-> outcome.entities,
           clinical_context |-> outcome.clinical_context]}

MessageBerberine ==
    <<"W", "h", "a", "t", " ", "i", "s", " ", "b", "e", "r", "b", "e", "r", "i", "n", "e", "?">>

MessageInsulinPathway ==
    <<"E", "x", "p", "l", "a", "i", "n", " ", "t", "h", "e", " ", "<", "b", ">", "i", "n", "s", "u", "l", "i", "n", "<", "/", "b", ">", " ", "p", "a", "t", "h", "w", "a", "y">>

MessageHeartProtocol ==
    <<"T", "r", "e", "a", "t", "m", "e", "n", "t", " ", "p", "r", "o", "t", "o", "c", "o", "l", " ", "f", "o", "r", " ", "h", "e", "a", "r", "t">>

MessageSummaryTag ==
    <<"<", "s", "u", "m", "m", "a", "r", "y", ">">>

MessageBrainAging ==
    <<"S", "u", "m", "m", "a", "r", "i", "z", "e", " ", "r", "e", "s", "e", "a", "r", "c", "h", " ", "o", "n", " ", "b", "r", "a", "i", "n", " ", "a", "g", "i", "n", "g">>

MessageCoq10 ==
    <<"C", "o", "Q", "1", "0", " ", "a", "n", "d", " ", "N", "A", "D", "+", " ", "f", "o", "r", " ", "f", "a", "t", "i", "g", "u", "e">>

MessageOrgans ==
    <<"l", "i", "v", "e", "r", " ", "k", "i", "d", "n", "e", "y", " ", "s", "p", "l", "e", "e", "n", " ", "t", "h", "y", "r", "o", "i", "d", " ", "m", "u", "s", "c", "l", "e", " ", "c", "o", "r", "t", "e", "x">>

\* the messages extract_intent is called with
IntentMessages ==
    {<<>>, MessageBerberine,
     MessageInsulinPathway,
     MessageHeartProtocol,
     MessageSummaryTag,
     MessageBrainAging,
     MessageCoq10,
     MessageOrgans}

ExtractIntentCalls ==
    [fn : {"extract_intent"}, user_message : IntentMessages]

----------------------------------------------------------------------------
(* core/auth.py: APIKeyMiddleware, and core/config.py: Settings.valid_api_keys *)

\* str.strip()
strip(text) ==
    LET inked == {i \in 1..Len(text) : text[i] # " "}
    IN  IF inked = {} THEN <<>>
        ELSE SubSeq(text, CHOOSE i \in inked : \A j \in inked : i <= j,
                          CHOOSE i \in inked : \A j \in inked : j <= i)

\* set(text.split(",")): the pieces between consecutive commas
split_on_comma(text) ==
    LET cuts == {i \in 1..Len(text) : text[i] = ","} \cup {0, Len(text) + 1}
    IN  {SubSeq(text, p + 1, q - 1) : <<p, q>> \in
            {c \in cuts \X cuts :
                c[1] < c[2] /\ \A m \in cuts : ~(c[1] < m /\ m < c[2])}}

\* Settings.valid_api_keys for the configured api_keys string
valid_api_keys(api_keys) ==
    IF api_keys = <<>> THEN {}
    ELSE {strip(key) : key \in {k \in split_on_comma(api_keys) : strip(k) # <<>>}}

\* str.startswith(prefix)
startswith(text, prefix) ==
    Len(prefix) <= Len(text) /\ SubSeq(text, 1, Len(prefix)) = prefix

\* str.replace(old, new): every occurrence of old, from the left, not
\* overlapping
RECURSIVE replace(_, _, _)
replace(text, old, new) ==
    IF Len(text) < Len(old) THEN text
    ELSE IF SubSeq(text, 1, Len(old)) = old
         THEN new \o replace(SubSeq(text, Len(old) + 1, Len(text)), old, new)
    ELSE <<text[1]>> \o replace(Tail(text), old, new)

BearerPrefix == <<"B", "e", "a", "r", "e", "r", " ">>

\* the paths dispatch lets through without looking at the headers
AUTH_EXEMPT_PATHS == {"/health", "/health_check", "/docs", "/openapi.json", "/redoc"}

\* dispatch let the request through: `return await call_next(request)`
CallNext == [handler_ran |-> TRUE, status_code |-> 0]

\* dispatch raised HTTPException(status_code=401)
Raise401 == [handler_ran |-> FALSE, status_code |-> 401]

\* APIKeyMiddleware.dispatch(request, call_next) for a request with the given
\* path and Authorization header (None when the header is absent), under the
\* configured api_keys
dispatch(path, auth_header, api_keys) ==
    IF path \in AUTH_EXEMPT_PATHS THEN CallNext
    ELSE IF auth_header = None \/ auth_header = Some(<<>>) THEN Raise401
    ELSE IF ~startswith(Val(auth_header), BearerPrefix) THEN Raise401
    ELSE LET api_key == replace(Val(auth_header), BearerPrefix, <<>>)
             valid_keys == valid_api_keys(api_keys)
         IN  IF valid_keys = {} THEN CallNext
             ELSE IF api_key \notin valid_keys THEN Raise401
             ELSE CallNext

HeaderValidKey ==
    <<"B", "e", "a", "r", "e", "r", " ", "k", "1">>

HeaderSecondKey ==
    <<"B", "e", "a", "r", "e", "r", " ", "k", "2">>

HeaderInvalidKey ==
    <<"B", "e", "a", "r", "e", "r", " ", "i", "n", "v", "a", "l", "i", "d", "-", "k", "e", "y">>

HeaderBasic ==
    <<"B", "a", "s", "i", "c", " ", "k", "1">>

HeaderLowercaseScheme ==
    <<"b", "e", "a", "r", "e", "r", " ", "k", "1">>

HeaderBearerTwice ==
    <<"B", "e", "a", "r", "e", "r", " ", "B", "e", "a", "r", "e", "r", " ", "k", "1">>

HeaderNoKey ==
    <<"B", "e", "a", "r", "e", "r", " ">>

HeaderBareKey ==
    <<"k", "1">>

HeaderTwoBlanks ==
    <<"B", "e", "a", "r", "e", "r", " ", " ", "k", "1">>

ApiKeysUnset ==
    <<>>

ApiKeysOne ==
    <<"k", "1">>

ApiKeysTwo ==
    <<"k", "1", ",", " ", "k", "2">>

ApiKeysOnlyComma ==
    <<",">>

\* the paths of the service's routes, and two that no route has
RequestPaths ==
    AUTH_EXEMPT_PATHS \cup {"/evidence/search", "/evidence/search/stream", "/health/"}

\* the Authorization headers requests carry: none, empty, and the values above
AuthHeaders ==
    {None, Some(<<>>)} \cup
    {Some(h) : h \in {HeaderValidKey, HeaderSecondKey, HeaderInvalidKey, HeaderBasic, HeaderLowercaseScheme, HeaderBearerTwice,
                        HeaderNoKey, HeaderBareKey, HeaderTwoBlanks}}

\* the values of the api_keys setting
ApiKeysSettings == {ApiKeysUnset, ApiKeysOne, ApiKeysTwo, ApiKeysOnlyComma}

DispatchCalls ==
    [fn : {"dispatch"}, path : RequestPaths, auth_header : AuthHeaders,
     api_keys : ApiKeysSettings]

----------------------------------------------------------------------------
(* Direct calls of the scoring functions, as the unit tests make them:      *)
(* RerankingService.assess_evidence_quality(results) on SearchResult        *)
(* objects built by the caller, and compute_lexical_score(query, title,     *)
(* abstract).  The call's arguments are drawn by the initial state.         *)

\* longest list handed to assess_evidence_quality
MaxResults == 5

TypeMetaAnalysisSpaced == <<"M", "e", "t", "a", " ", "A", "n", "a", "l", "y", "s", "i", "s">>
TypeSystematicReview == <<"S", "y", "s", "t", "e", "m", "a", "t", "i", "c", " ", "R", "e", "v", "i", "e", "w">>
TypeRct == <<"R", "C", "T">>

\* SearchResult objects a caller builds: every evidence class, citation
\* counts on both sides of 50 and 100, years on both sides of current_year - 3,
\* and the unset values
AssessResults ==
    { SearchResult("k1", <<>>, None, Some(current_year), Some(100),
                   Some(TypeMetaAnalysis), 0),
      SearchResult("k2", <<>>, None, Some(2019), None,
                   Some(TypeMetaAnalysisSpaced), 0),
      SearchResult("k3", <<>>, None, Some(2022), Some(50),
                   Some(TypeSystematicReview), 0),
      SearchResult("k4", <<>>, None, None, Some(99), Some(TypeRct), 0),
      SearchResult("k5", <<>>, None, Some(2021), Some(120), Some(TypeReview), 0),
      SearchResult("k6", <<>>, None, None, None, None, 0) }

\* meta-analyses with at least 100 citations published in current_year
StrongMetaAnalyses ==
    { SearchResult("m1", <<>>, None, Some(current_year), Some(100),
                   Some(TypeMetaAnalysis), 0),
      SearchResult("m2", <<>>, None, Some(current_year), Some(250),
                   Some(TypeMetaAnalysisSpaced), 0) }

\* the texts of TestLexicalScoring and texts with repeated tokens, with
\* stopwords only, and empty
QueryBerberine == <<"b", "e", "r", "b", "e", "r", "i", "n", "e", " ", "i", "n", "s", "u", "l", "i", "n", " ", "r", "e", "s", "i", "s", "t", "a", "n", "c", "e">>
TitleBerberine == <<"B", "e", "r", "b", "e", "r", "i", "n", "e", " ", "i", "m", "p", "r", "o", "v", "e", "s", " ", "i", "n", "s", "u", "l", "i", "n", " ", "r", "e", "s", "i", "s", "t", "a", "n", "c", "e", " ", "i", "n", " ", "t", "y", "p", "e", " ", "2", " ", "d", "i", "a", "b", "e", "t", "e", "s">>
AbstractBerberine == <<"T", "h", "i", "s", " ", "s", "t", "u", "d", "y", " ", "e", "x", "a", "m", "i", "n", "e", "s", " ", "h", "o", "w", " ", "b", "e", "r", "b", "e", "r", "i", "n", "e", " ", "a", "f", "f", "e", "c", "t", "s", " ", "i", "n", "s", "u", "l", "i", "n", " ", "s", "e", "n", "s", "i", "t", "i", "v", "i", "t", "y", ".">>
TitleOcean == <<"O", "c", "e", "a", "n", " ", "a", "c", "i", "d", "i", "f", "i", "c", "a", "t", "i", "o", "n", " ", "e", "f", "f", "e", "c", "t", "s", " ", "o", "n", " ", "c", "o", "r", "a", "l", " ", "r", "e", "e", "f", "s">>
AbstractMarine == <<"M", "a", "r", "i", "n", "e", " ", "e", "c", "o", "s", "y", "s", "t", "e", "m", "s", " ", "a", "r", "e", " ", "a", "f", "f", "e", "c", "t", "e", "d", " ", "b", "y", " ", "c", "l", "i", "m", "a", "t", "e", " ", "c", "h", "a", "n", "g", "e", ".">>

LexicalQueries ==
    { QueryBerberine, QueryGutIbs, QueryTheGut,
      <<"g", "u", "t", " ", "g", "u", "t", " ", "I", "B", "S">>,
      <<"t", "h", "e", " ", "o", "f">>,
      <<>> }

LexicalTitles ==
    { TitleBerberine, TitleOcean, TitleGutIbs,
      <<"O", "f", " ", "t", "h", "e">>,
      <<>> }

LexicalAbstracts ==
    { None, Some(<<>>), Some(AbstractBerberine), Some(AbstractMarine) }

\* the result lists of length n
ResultLists(n) == [1..n -> AssessResults]

DirectCalls ==
    { [fn |-> "assess_evidence_quality", results |-> rs,
       query |-> <<>>, title |-> <<>>, abstract |-> None] :
         rs \in UNION { ResultLists(n) : n \in 0..MaxResults } }
    \cup
    { [fn |-> "compute_lexical_score", results |-> <<>>,
       query |-> q, title |-> t, abstract |-> a] :
         q \in LexicalQueries, t \in LexicalTitles, a \in LexicalAbstracts }

\* SearchResult objects handed to compute_metadata_bonus: years and citation
\* counts on both sides of every tier, unset and 0
MetadataResults ==
    { SearchResult("b", <<>>, None, y, c, None, 0) :
        y \in {None, Some(0), Some(2017), Some(2018), Some(2021), Some(2022),
               Some(current_year)},
        c \in {None, Some(0), Some(9), Some(10), Some(49), Some(50), Some(200)} }

MetadataBonusCalls ==
    { [fn |-> "compute_metadata_bonus", result |-> r] : r \in MetadataResults }

DirectInit ==
    /\ pc = "idle"
    /\ request = None
    /\ filters = None
    /\ raw_results = <<>>
    /\ heap = <<>>
    /\ results = <<>>
    /\ reranked_out = None
    /\ response = None
    /\ http_status = 0
    /\ encoder_outcome = "none"
    /\ store_outcome = "none"
    /\ \/ call \in {Some(c) : c \in DirectCalls}
       \/ call \in {Some(c) : c \in MetadataBonusCalls}
       \/ call \in {Some(c) : c \in ExtractIntentCalls}
       \/ call \in {Some(c) : c \in DispatchCalls}
    /\ ret = None
    /\ encoder_calls = 0
    /\ store_calls = 0
    /\ events = <<>>
    /\ tasks = <<>>

\* the list [0], [1], ... of references into a caller's list of objects
refs_of(objects) == [i \in 1..Len(objects) |-> i]

\* `reranker.assess_evidence_quality(results)` returns
assess_evidence_quality_returns ==
    /\ call # None
    /\ Val(call).fn = "assess_evidence_quality"
    /\ ret = None
    /\ ret' = Some(assess_evidence_quality(Val(call).results,
                                           refs_of(Val(call).results)))
    /\ UNCHANGED <<pc, request, filters, raw_results, heap, results, reranked_out,
                   response, http_status, encoder_outcome, store_outcome, call,
                   encoder_calls, store_calls, events, tasks>>

\* `compute_lexical_score(query=..., title=..., abstract=...)` returns
compute_lexical_score_returns ==
    /\ call # None
    /\ Val(call).fn = "compute_lexical_score"
    /\ ret = None
    /\ ret' = Some(compute_lexical_score(Val(call).query, Val(call).title,
                                         Val(call).abstract))
    /\ UNCHANGED <<pc, request, filters, raw_results, heap, results, reranked_out,
                   response, http_status, encoder_outcome, store_outcome, call,
                   encoder_calls, store_calls, events, tasks>>

\* `reranker.compute_metadata_bonus(result)` returns
compute_metadata_bonus_returns ==
    /\ call # None
    /\ Val(call).fn = "compute_metadata_bonus"
    /\ ret = None
    /\ ret' = Some(compute_metadata_bonus(Val(call).result))
    /\ UNCHANGED <<pc, request, filters, raw_results, heap, results, reranked_out,
                   response, http_status, encoder_outcome, store_outcome, call,
                   encoder_calls, store_calls, events, tasks>>

\* `await intent_service.extract_intent(user_message)` returns
extract_intent_returns ==
    /\ call # None
    /\ Val(call).fn = "extract_intent"
    /\ ret = None
    /\ \E outcome \in LLMOutcomes :
           \E intent \in extract_intent(Val(call).user_message, outcome) :
               ret' = Some(intent)
    /\ UNCHANGED <<pc, request, filters, raw_results, heap, results, reranked_out,
                   response, http_status, encoder_outcome, store_outcome, call,
                   encoder_calls, store_calls, events, tasks>>

\* `await middleware.dispatch(request, call_next)` returns or raises
dispatch_returns ==
    /\ call # None
    /\ Val(call).fn = "dispatch"
    /\ ret = None
    /\ ret' = Some(dispatch(Val(call).path, Val(call).auth_header, Val(call).api_keys))
    /\ UNCHANGED <<pc, request, filters, raw_results, heap, results, reranked_out,
                   response, http_status, encoder_outcome, store_outcome, call,
                   encoder_calls, store_calls, events, tasks>>

DirectNext ==
    \/ assess_evidence_quality_returns
    \/ compute_lexical_score_returns
    \/ compute_metadata_bonus_returns
    \/ extract_intent_returns
    \/ dispatch_returns

DirectSpec == DirectInit /\ [][DirectNext]_vars

----------------------------------------------------------------------------
(* Two search() calls on one SearchService, run as asyncio tasks.  A task   *)
(* runs without interruption up to `await self._qdrant.search(...)`, where  *)
(* the other task may run, and again from the store's answer to its return. *)
(* The service holds the encoder, the store client and the reranker; each   *)
(* call keeps its request, raw_results and results in local variables.      *)

TaskIds == {1, 2}

\* the requests the concurrent calls carry: both queries, with and without
\* reranking, filtered to reviews
ConcurrentRequests ==
    {req \in Requests :
        /\ req.limit >= 1
        /\ req.year_from = None
        /\ req.year_to = None
        /\ req.min_citations = None
        /\ req.publication_types = Some(<<TypeReview>>)
        /\ req.lexical_min = (5 * Scale) \div 100
        /\ req.use_lexical_filter}

\* a call that has not started
IdleTask ==
    [pc |-> "idle", request |-> None, raw_results |-> <<>>, heap |-> <<>>,
     response |-> None]

ConcurrentInit ==
    /\ pc = "idle"
    /\ request = None
    /\ filters = None
    /\ raw_results = <<>>
    /\ heap = <<>>
    /\ results = <<>>
    /\ reranked_out = None
    /\ response = None
    /\ http_status = 0
    /\ encoder_outcome = "none"
    /\ store_outcome = "none"
    /\ call = None
    /\ ret = None
    /\ encoder_calls = 0
    /\ store_calls = 0
    /\ events = <<>>
    /\ tasks = [i \in TaskIds |-> IdleTask]

\* search() from the store's answer `raw` to its return, for the request
\* `req`: conversion, reranking, truncation and grade; the heap of the
\* call's SearchResult objects and its SearchResponse
search_from_store_answer(req, raw) ==
    CHOOSE done \in
        {[heap     |-> out.heap,
          response |-> [query            |-> req.query,
                        results          |-> truncate(out.reranked, req.limit),
                        total_found      |-> Len(truncate(out.reranked, req.limit)),
                        evidence_quality |->
                            assess_evidence_quality(
                                out.heap, truncate(out.reranked, req.limit))]] :
            out \in {IF req.use_reranking
                     THEN rerank(req.query, converted, refs_of(converted),
                                 rerank_lexical_min(req))
                     ELSE [heap |-> converted, reranked |-> refs_of(converted)] :
                         converted \in {[i \in 1..Len(raw) |-> _to_search_result(raw[i])]}}} :
        TRUE

\* task i enters search(req): the encoder returns, the filters are built and
\* the task suspends at the store call
task_search_awaits_store(i, req) ==
    /\ tasks[i].pc = "idle"
    /\ tasks' = [tasks EXCEPT ![i] = [IdleTask EXCEPT !.pc = "await_store",
                                                      !.request = Some(req)]]
    /\ UNCHANGED <<pc, request, filters, raw_results, heap, results, reranked_out,
                   response, http_status, encoder_outcome, store_outcome, call,
                   ret, encoder_calls, store_calls, events>>

\* task i enters search(req) and the encoder raises
task_search_encoder_raises(i, req) ==
    /\ tasks[i].pc = "idle"
    /\ tasks' = [tasks EXCEPT ![i] = [IdleTask EXCEPT !.pc = "raised",
                                                      !.request = Some(req)]]
    /\ UNCHANGED <<pc, request, filters, raw_results, heap, results, reranked_out,
                   response, http_status, encoder_outcome, store_outcome, call,
                   ret, encoder_calls, store_calls, events>>

\* task_search_resumes reading the request of the other call once that call
\* has entered search(), as if the request were kept on the shared service
task_search_resumes_shared_request(i) ==
    /\ tasks[i].pc = "await_store"
    /\ LET own == Val(tasks[i].request)
           other == CHOOSE j \in TaskIds : j # i
           req == IF tasks[other].pc # "idle" THEN Val(tasks[other].request) ELSE own
       IN  \E points \in formatted_results(_build_filters(own), own.limit * 3) :
               IF \E k \in 1..Len(points) : ~validates(_to_search_result(points[k]))
               THEN tasks' = [tasks EXCEPT ![i].pc = "raised",
                                           ![i].raw_results = points]
               ELSE \E done \in {search_from_store_answer(req, points)} :
                        tasks' = [tasks EXCEPT ![i].pc = "returned",
                                               ![i].raw_results = points,
                                               ![i].heap = done.heap,
                                               ![i].response = Some(done.response)]
    /\ UNCHANGED <<pc, request, filters, raw_results, heap, results, reranked_out,
                   response, http_status, encoder_outcome, store_outcome, call,
                   ret, encoder_calls, store_calls, events>>

\* the store answers task i, which runs to the end of search()
task_search_resumes(i) ==
    /\ tasks[i].pc = "await_store"
    /\ LET req == Val(tasks[i].request)
       IN  \E points \in formatted_results(_build_filters(req), req.limit * 3) :
               IF \E k \in 1..Len(points) : ~validates(_to_search_result(points[k]))
               THEN tasks' = [tasks EXCEPT ![i].pc = "raised",
                                           ![i].raw_results = points]
               ELSE \E done \in {search_from_store_answer(req, points)} :
                        tasks' = [tasks EXCEPT ![i].pc = "returned",
                                               ![i].raw_results = points,
                                               ![i].heap = done.heap,
                                               ![i].response = Some(done.response)]
    /\ UNCHANGED <<pc, request, filters, raw_results, heap, results, reranked_out,
                   response, http_status, encoder_outcome, store_outcome, call,
                   ret, encoder_calls, store_calls, events>>

\* the store call of task i raises
task_search_store_raises(i) ==
    /\ tasks[i].pc = "await_store"
    /\ tasks' = [tasks EXCEPT ![i].pc = "raised"]
    /\ UNCHANGED <<pc, request, filters, raw_results, heap, results, reranked_out,
                   response, http_status, encoder_outcome, store_outcome, call,
                   ret, encoder_calls, store_calls, events>>

ConcurrentNext ==
    \/ \E i \in TaskIds, req \in ConcurrentRequests : task_search_awaits_store(i, req)
    \/ \E i \in TaskIds, req \in ConcurrentRequests : task_search_encoder_raises(i, req)
    \/ \E i \in TaskIds : task_search_resumes(i)
    \/ \E i \in TaskIds : task_search_store_raises(i)

ConcurrentSpec == ConcurrentInit /\ [][ConcurrentNext]_vars

----------------------------------------------------------------------------
(* Properties *)

Responded == response # None

ResponseResults == Val(response).results

RerankRan == reranked_out # None

\* C1: the results list of every response returned by search has at most
\* request.limit elements, whatever the limit, the toggles and the candidates.
C1_ResultsWithinLimit ==
    Responded => Len(ResponseResults) <= request.limit

\* C2: without reranking every returned result has combined_score equal to
\* its vector_score and the results are in the order the store returned them.
C2_NoRerankCombinedIsVector ==
    (Responded /\ ~request.use_reranking) =>
        /\ \A i \in 1..Len(ResponseResults) :
               heap[ResponseResults[i]].combined_score
                   = heap[ResponseResults[i]].vector_score
        /\ ResponseResults = [i \in 1..Len(ResponseResults) |-> i]

\* conditions of the filter other than the publication-type ones
other_conditions(f) == filter_conditions([f EXCEPT !.publication_types = None])

\* C3: several requested publication types filter as a disjunction: a stored
\* document that has any one of the requested types (and meets the remaining
\* conditions) passes the filter handed to the vector store.
C3_PublicationTypesDisjunctive ==
    (encoder_outcome = "returned" /\ filters.publication_types # None) =>
        \A p \in Corpus :
            ( /\ p.payload.publicationtypes # None
              /\ \E t \in Range(Val(filters.publication_types)) :
                     t \in Range(Val(p.payload.publicationtypes))
              /\ search_filter_passes(p.payload, other_conditions(filters)) )
            => search_filter_passes(p.payload, filter_conditions(filters))

\* C4 (Scenario C): after rerank with floor 0, of two results with
\* vector_score 0.85, the same text and 0 citations, the one dated 2023 has a
\* combined_score strictly greater than the one dated 2019.
C4_RecentOutranksOlder ==
    (RerankRan /\ rerank_lexical_min(request) = 0) =>
        \A a, b \in Range(Val(reranked_out)) :
            ( /\ heap[a].vector_score = (85 * Scale) \div 100
              /\ heap[b].vector_score = (85 * Scale) \div 100
              /\ heap[a].title = heap[b].title
              /\ heap[a].abstract = heap[b].abstract
              /\ heap[a].citation_count = Some(0)
              /\ heap[b].citation_count = Some(0)
              /\ heap[a].year = Some(2023)
              /\ heap[b].year = Some(2019) )
            => heap[a].combined_score > heap[b].combined_score

\* C5 (Scenario D): the grade of a list holding one result of type
\* "Meta-Analysis" with no citation count and no year is at least 3.
C5_SingleMetaAnalysisGrade ==
    ( /\ Responded
      /\ Len(ResponseResults) = 1
      /\ heap[ResponseResults[1]].publication_type = Some(TypeMetaAnalysis)
      /\ heap[ResponseResults[1]].citation_count = None
      /\ heap[ResponseResults[1]].year = None )
    => Val(response).evidence_quality >= 3

\* C6: whenever reranking ran, every result of the rerank output, and so of
\* the response, has combined_score >= vector_score.
C6_CombinedAtLeastVector ==
    RerankRan =>
        /\ \A ref \in Range(Val(reranked_out)) :
               heap[ref].combined_score >= heap[ref].vector_score
        /\ Responded =>
               \A i \in 1..Len(ResponseResults) :
                   heap[ResponseResults[i]].combined_score
                       >= heap[ResponseResults[i]].vector_score

\* a response after reranking that holds a result whose combined score
\* exceeds its vector score and one whose combined score equals it
C6_Witness ==
    /\ RerankRan
    /\ Responded
    /\ \E i, j \in 1..Len(ResponseResults) :
           /\ heap[ResponseResults[i]].combined_score
                  > heap[ResponseResults[i]].vector_score
           /\ heap[ResponseResults[j]].combined_score
                  = heap[ResponseResults[j]].vector_score

\* refs is ordered by combined_score descending, equal scores in store order
\* (an object's heap index is its position in the store's list)
SortedStable(refs) ==
    \A i, j \in 1..Len(refs) :
        i < j =>
            /\ heap[refs[i]].combined_score >= heap[refs[j]].combined_score
            /\ heap[refs[i]].combined_score = heap[refs[j]].combined_score
                   => refs[i] < refs[j]

\* C7: whenever reranking ran, the results are ordered by combined_score
\* descending, equal scores keep the store's relative order, and the
\* truncated list is a prefix of the reranked one.
C7_SortedDescendingStable ==
    RerankRan =>
        /\ SortedStable(Val(reranked_out))
        /\ SortedStable(results)
        /\ results = SubSeq(Val(reranked_out), 1, Len(results))
        /\ Responded => ResponseResults = results

\* a response after a rerank whose output holds two results that tie on
\* combined_score and a result moved ahead of one the store ranked higher,
\* and that was cut to the limit
C7_Witness ==
    /\ RerankRan
    /\ Responded
    /\ Len(ResponseResults) < Len(Val(reranked_out))
    /\ \E i, j \in 1..Len(Val(reranked_out)) :
           /\ i < j
           /\ heap[Val(reranked_out)[i]].combined_score
                  = heap[Val(reranked_out)[j]].combined_score
    /\ \E i, j \in 1..Len(Val(reranked_out)) :
           i < j /\ Val(reranked_out)[i] > Val(reranked_out)[j]

\* lexical score of a candidate object against the request's query
CandidateLexicalScore(ref) ==
    compute_lexical_score(request.query, heap[ref].title, heap[ref].abstract)

\* C8: after rerank with floor F every kept result has lexical_score >= F; a
\* candidate scoring strictly below F is absent from the output and one
\* scoring exactly F is kept.
C8_LexicalFloor ==
    RerankRan =>
        LET F    == rerank_lexical_min(request)
            kept == Range(Val(reranked_out))
        IN  /\ \A ref \in kept : heap[ref].lexical_score >= F
            /\ \A ref \in 1..Len(heap) :
                   /\ CandidateLexicalScore(ref) < F => ref \notin kept
                   /\ CandidateLexicalScore(ref) = F => ref \in kept
            /\ Range(results) \subseteq kept

\* a rerank with a positive floor that dropped one candidate and kept one
\* scoring exactly the floor
C8_Witness ==
    /\ RerankRan
    /\ rerank_lexical_min(request) > 0
    /\ \E ref \in 1..Len(heap) : ref \notin Range(Val(reranked_out))
    /\ \E ref \in Range(Val(reranked_out)) :
           heap[ref].lexical_score = rerank_lexical_min(request)

\* C9: when the encoder or the vector store fails, search() raises and
\* returns no response, and the route answers with an error status, never
\* with a successful (empty) response.
C9_UpstreamFailureNotMasked ==
    (encoder_outcome = "raised" \/ store_outcome = "raised") =>
        /\ response = None
        /\ pc \in {"raised", "error"}
        /\ http_status \in {0, 500}
        /\ pc = "error" => http_status = 500

\* the route has answered 500 after the vector store raised
C9_Witness ==
    /\ store_outcome = "raised"
    /\ encoder_outcome = "returned"
    /\ pc = "error"
    /\ http_status = 500

\* C10: search() called with limit <= 0 fails instead of returning a
\* SearchResponse.
C10_NonPositiveLimitFails ==
    (pc # "idle" /\ request.limit <= 0) => ~Responded

\* C11: once the encoder and the vector store have returned, search() returns
\* a response: no raw record, whatever payload fields it lacks or holds as
\* null, makes search() raise; and a returned record whose payload has no
\* title (absent or null) carries the empty string as its title.
C11_MalformedRecordNeverAborts ==
    /\ (encoder_outcome = "returned" /\ store_outcome = "returned") =>
           pc \notin {"raised", "error"}
    /\ Responded =>
           \A ref \in Range(ResponseResults) :
               raw_results[ref].payload.title \in {None, Null} =>
                   heap[ref].title = <<>>

\* C12: when the request carries min_citations = M, every returned result
\* that carries a citation count has citation_count >= M.
C12_MinCitationsRespected ==
    (Responded /\ request.min_citations # None) =>
        \A ref \in Range(ResponseResults) :
            heap[ref].citation_count # None =>
                Val(heap[ref].citation_count) >= Val(request.min_citations)

untruncated_results ==
    IF RerankRan THEN Val(reranked_out) ELSE [i \in 1..Len(heap) |-> i]

\* C20: the response's results are the truncated list, its evidence_quality
\* is assess_evidence_quality of exactly those returned results, and its
\* total_found is their number.
C20_QualityOfReturnedResults ==
    Responded =>
        /\ ResponseResults = truncate(untruncated_results, request.limit)
        /\ Val(response).evidence_quality =
               assess_evidence_quality(heap, ResponseResults)
        /\ Val(response).total_found = Len(ResponseResults)

\* a response whose list was cut by the limit, where the untruncated list
\* would have been graded differently
C20_Witness ==
    /\ Responded
    /\ Len(ResponseResults) < Len(untruncated_results)
    /\ ResponseResults # <<>>
    /\ Val(response).evidence_quality #
           assess_evidence_quality(heap, untruncated_results)

\* C16: rerank applied to its own output, with the same query and floor,
\* returns the same results in the same order and leaves every lexical_score
\* and combined_score as it was.
C16_RerankIdempotent ==
    RerankRan =>
        LET again == rerank(request.query, heap, Val(reranked_out),
                            rerank_lexical_min(request))
        IN  /\ again.reranked = Val(reranked_out)
            /\ again.heap = heap

\* rerank dropped a candidate, reordered the survivors and raised their
\* combined scores above their vector scores
C16_Witness ==
    /\ RerankRan
    /\ Len(Val(reranked_out)) >= 2
    /\ Len(Val(reranked_out)) < Len(heap)
    /\ \E i \in 1..(Len(Val(reranked_out)) - 1) :
           Val(reranked_out)[i] > Val(reranked_out)[i + 1]
    /\ \A ref \in Range(Val(reranked_out)) :
           heap[ref].combined_score > heap[ref].vector_score

\* C18: with reranking on and the lexical filter off, rerank gets the floor
\* 0.0 whatever lexical_min the request carries and drops no candidate: the
\* response holds min(limit, number of candidates the store returned) results.
C18_FilterOffKeepsCandidates ==
    (RerankRan /\ ~request.use_lexical_filter) =>
        /\ rerank_lexical_min(request) = 0
        /\ Len(Val(reranked_out)) = Len(raw_results)
        /\ Responded =>
               Len(ResponseResults) = Min(request.limit, Len(raw_results))

\* C19: a request with year_from > year_to does not make search() raise;
\* both bounds reach the store as conjoined inclusive range conditions on
\* year, no document satisfies them, and the response has zero results.
C19_ContradictoryYearsGiveNothing ==
    (/\ pc # "idle"
     /\ request.year_from # None
     /\ request.year_to # None
     /\ Val(request.year_from) > Val(request.year_to)) =>
        /\ pc \in {"raised", "error"} =>
               (encoder_outcome = "raised" \/ store_outcome = "raised")
        /\ encoder_outcome = "returned" =>
               /\ filters.year_gte = request.year_from
               /\ filters.year_lte = request.year_to
               /\ \E j, k \in 1..Len(filter_conditions(filters)) :
                      /\ filter_conditions(filters)[j] =
                             [key |-> "year", kind |-> "gte",
                              value |-> Val(request.year_from)]
                      /\ filter_conditions(filters)[k] =
                             [key |-> "year", kind |-> "lte",
                              value |-> Val(request.year_to)]
        /\ store_outcome = "returned" => raw_results = <<>>
        /\ Responded => ResponseResults = <<>>

AssessReturned ==
    call # None /\ Val(call).fn = "assess_evidence_quality" /\ ret # None

LexicalReturned ==
    call # None /\ Val(call).fn = "compute_lexical_score" /\ ret # None

C15_StrongMetaAnalysisMonotone ==
    AssessReturned =>
        \A m \in StrongMetaAnalyses :
            LET extended == Append(Val(call).results, m)
            IN  assess_evidence_quality(extended, refs_of(extended)) >= Val(ret)

\* a non-empty list holding two systematic reviews whose grade is known, and
\* which a strong meta-analysis lifts to a strictly higher grade
C15_Witness ==
    /\ AssessReturned
    /\ Cardinality({i \in 1..Len(Val(call).results) :
                       evidence_class(Val(call).results[i]) = "systematic_reviews"}) >= 2
    /\ \E m \in StrongMetaAnalyses :
           LET extended == Append(Val(call).results, m)
           IN  assess_evidence_quality(extended, refs_of(extended)) > Val(ret)

\* the stopword-free token set of a text
ContentSet(text) == SetOf(SelectNotStopword(_tokenize(text)))

\* C17: with Q the stopword-free token set of the query and D that of the
\* title together with the abstract, compute_lexical_score returns exactly 0
\* when Q or D is empty and otherwise |Q \cap D| / |Q| + 0.1 * |Q \cap D|; a
\* document holding every token of Q scores above 0.5 (Scenario A scores 1.3)
\* and a document sharing none scores 0, below 0.1 (Scenario B).
C17_LexicalScoreFormula ==
    LexicalReturned =>
        LET c == Val(call)
            Q == ContentSet(c.query)
            D == ContentSet(c.title)
                 \cup (IF c.abstract = None THEN {} ELSE ContentSet(Val(c.abstract)))
            n == Cardinality(Q \cap D)
        IN  /\ (Q = {} \/ D = {}) => Val(ret) = 0
            /\ (Q # {} /\ D # {}) =>
                   Val(ret) * Cardinality(Q) * 10 =
                       n * Scale * 10 + n * Scale * Cardinality(Q)
            /\ (Q # {} /\ Q \subseteq D) => Val(ret) > Scale \div 2
            /\ Q \cap D = {} => (Val(ret) = 0 /\ Val(ret) < Scale \div 10)
            /\ (/\ c.query = QueryBerberine
                /\ c.title = TitleBerberine
                /\ c.abstract = Some(AbstractBerberine)) =>
                   Val(ret) = (13 * Scale) \div 10
            /\ (/\ c.query = QueryBerberine
                /\ c.title = TitleOcean
                /\ c.abstract = Some(AbstractMarine)) =>
                   Val(ret) = 0

\* Scenario A has been scored, and so has a query with a repeated token
\* against a document that covers it
C17_Witness ==
    /\ LexicalReturned
    /\ \/ /\ Val(call).query = QueryBerberine
          /\ Val(call).title = TitleBerberine
          /\ Val(call).abstract = Some(AbstractBerberine)
          /\ Val(ret) > Scale \div 2
       \/ /\ Len(SelectNotStopword(_tokenize(Val(call).query))) >
                 Cardinality(ContentSet(Val(call).query))
          /\ Val(ret) > Scale

\* C23: when the evidence-quality components sum to a half-integer k + 0.5,
\* k in 0..4, the grade returned is k + 1 (halves round up).
C23_HalvesRoundUp ==
    (AssessReturned /\ Val(call).results # <<>>) =>
        LET score2 == evidence_score2(Val(call).results, refs_of(Val(call).results))
        IN  \A k \in 0..4 : score2 = 2 * k + 1 => Val(ret) = k + 1

\* the tier the claim's table gives for the four class counts, times 2
HierarchyTable2(m, s, r, o) ==
    CASE m >= 2 -> 5
      [] m = 1 -> 4
      [] m = 0 /\ s >= 2 -> 4
      [] m = 0 /\ s = 1 -> 3
      [] m = 0 /\ s = 0 /\ r >= 3 -> 3
      [] m = 0 /\ s = 0 /\ r \in 1..2 -> 2
      [] m = 0 /\ s = 0 /\ r = 0 /\ o >= 2 -> 2
      [] m = 0 /\ s = 0 /\ r = 0 /\ o = 1 -> 1
      [] OTHER -> 0

\* the publication type of a result, lowercased ("" when unset)
LowerType(result) ==
    IF TruthySeq(result.publication_type)
    THEN lower(Val(result.publication_type)) ELSE <<>>

IsMeta(result) ==
    \/ Contains(LowerType(result), <<"m", "e", "t", "a", "-", "a", "n", "a", "l", "y", "s", "i", "s">>)
    \/ Contains(LowerType(result), <<"m", "e", "t", "a", " ", "a", "n", "a", "l", "y", "s", "i", "s">>)

IsSystematic(result) ==
    Contains(LowerType(result), <<"s", "y", "s", "t", "e", "m", "a", "t", "i", "c", " ", "r", "e", "v", "i", "e", "w">>)

IsRct(result) ==
    \/ Contains(LowerType(result), <<"r", "a", "n", "d", "o", "m", "i", "z", "e", "d", " ", "c", "o", "n", "t", "r", "o", "l", "l", "e", "d", " ", "t", "r", "i", "a", "l">>)
    \/ Contains(LowerType(result), <<"r", "c", "t">>)

IsReview(result) == Contains(LowerType(result), <<"r", "e", "v", "i", "e", "w">>)

\* C27: every result counts in at most one class, by priority meta-analysis,
\* systematic review, RCT, other review, and the hierarchy component of the
\* grade is the single tier the table gives for the class counts: the grade
\* is min(5, round(base + tier + citation + recency)), no lower tier added.
C27_SingleHierarchyTier ==
    (AssessReturned /\ Val(call).results # <<>>) =>
        LET rs == Val(call).results
            idx == 1..Len(rs)
            m == Cardinality({i \in idx : IsMeta(rs[i])})
            s == Cardinality({i \in idx : ~IsMeta(rs[i]) /\ IsSystematic(rs[i])})
            r == Cardinality({i \in idx : /\ ~IsMeta(rs[i]) /\ ~IsSystematic(rs[i])
                                          /\ IsRct(rs[i])})
            o == Cardinality({i \in idx : /\ ~IsMeta(rs[i]) /\ ~IsSystematic(rs[i])
                                          /\ ~IsRct(rs[i]) /\ IsReview(rs[i])})
            sum2 == base_component2(rs, refs_of(rs)) + HierarchyTable2(m, s, r, o)
                    + citation_component2(rs, refs_of(rs))
                    + recency_component2(rs, refs_of(rs))
        IN  /\ m + s + r + o <= Len(rs)
            /\ m = class_count(rs, refs_of(rs), "meta_analyses")
            /\ s = class_count(rs, refs_of(rs), "systematic_reviews")
            /\ r = class_count(rs, refs_of(rs), "rcts")
            /\ o = class_count(rs, refs_of(rs), "other_reviews")
            /\ Val(ret) = Min(5, round_half_even(sum2))

\* a graded list in which a result matches two classes and in which a lower
\* tier applies beside the winning one
C27_Witness ==
    /\ AssessReturned
    /\ \E i \in 1..Len(Val(call).results) :
           IsSystematic(Val(call).results[i]) /\ IsReview(Val(call).results[i])
    /\ class_count(Val(call).results, refs_of(Val(call).results), "meta_analyses") = 1
    /\ class_count(Val(call).results, refs_of(Val(call).results), "rcts") >= 1
    /\ class_count(Val(call).results, refs_of(Val(call).results), "other_reviews") >= 2

BonusReturned ==
    call # None /\ Val(call).fn = "compute_metadata_bonus" /\ ret # None

\* C28: compute_metadata_bonus is one recency tier (year >= 2022, otherwise
\* year >= 2018, otherwise nothing) plus one citation tier (>= 50, otherwise
\* >= 10, otherwise nothing); a missing year or citation count gives 0 for
\* its dimension and the bonus is never negative.
C28_MetadataBonusTiers ==
    BonusReturned =>
        LET result == Val(call).result
            recency == IF result.year = None THEN 0
                       ELSE IF Val(result.year) >= 2022 THEN recency_bonus_2022
                       ELSE IF Val(result.year) >= 2018 THEN recency_bonus_2018
                       ELSE 0
            citation == IF result.citation_count = None THEN 0
                        ELSE IF Val(result.citation_count) >= 50 THEN citation_bonus_50
                        ELSE IF Val(result.citation_count) >= 10 THEN citation_bonus_10
                        ELSE 0
        IN  /\ Val(ret) = recency + citation
            /\ Val(ret) >= 0
            /\ (result.year = None /\ result.citation_count = None) => Val(ret) = 0

\* a result of the current year with 200 citations got exactly the top tier
\* of each dimension
C28_Witness ==
    /\ BonusReturned
    /\ Val(call).result.year = Some(current_year)
    /\ Val(call).result.citation_count = Some(200)
    /\ Val(ret) = recency_bonus_2022 + citation_bonus_50

\* C26: with reranking on, the reranked list holds every candidate of the
\* oversampled set that passes the floor, the response is the first `limit`
\* entries of that list, and every returned result's combined_score is >= the
\* combined_score of every survivor that was not returned.
C26_TruncationAfterReranking ==
    (RerankRan /\ Responded) =>
        LET survivors == Val(reranked_out)
        IN  /\ Range(survivors) =
                   {ref \in 1..Len(raw_results) :
                       CandidateLexicalScore(ref) >= rerank_lexical_min(request)}
            /\ ResponseResults =
                   SubSeq(survivors, 1, Min(Max(request.limit, 0), Len(survivors)))
            /\ \A r \in Range(ResponseResults) :
                   \A s \in Range(survivors) \ Range(ResponseResults) :
                       heap[r].combined_score >= heap[s].combined_score

\* a result the store ranked beyond position `limit` is returned, ahead of a
\* survivor the store had ranked before it
C26_Witness ==
    /\ RerankRan
    /\ Responded
    /\ request.limit >= 1
    /\ \E r \in Range(ResponseResults) :
           /\ r > request.limit
           /\ \E s \in Range(Val(reranked_out)) \ Range(ResponseResults) : s < r

\* C30: rerank leaves vector_score, identifier, title, abstract, year,
\* citation count and publication type of every candidate as they were,
\* does not modify a candidate it drops, and returns only input candidates,
\* none of them twice.
C30_RerankFrame ==
    RerankRan =>
        /\ Len(heap) = Len(raw_results)
        /\ \A ref \in 1..Len(heap) :
               LET before == _to_search_result(raw_results[ref])
               IN  /\ heap[ref].vector_score = before.vector_score
                   /\ heap[ref].paper_id = before.paper_id
                   /\ heap[ref].title = before.title
                   /\ heap[ref].abstract = before.abstract
                   /\ heap[ref].year = before.year
                   /\ heap[ref].citation_count = before.citation_count
                   /\ heap[ref].publication_type = before.publication_type
                   /\ ref \notin Range(Val(reranked_out)) => heap[ref] = before
        /\ Range(Val(reranked_out)) \subseteq 1..Len(heap)
        /\ \A i, j \in 1..Len(Val(reranked_out)) :
               i # j => Val(reranked_out)[i] # Val(reranked_out)[j]

\* rerank kept a candidate and changed both of its scores, and dropped
\* another one
C30_Witness ==
    /\ RerankRan
    /\ \E ref \in Range(Val(reranked_out)) :
           /\ heap[ref].lexical_score > 0
           /\ heap[ref].combined_score > heap[ref].vector_score
    /\ \E ref \in 1..Len(heap) :
           /\ ref \notin Range(Val(reranked_out))
           /\ heap[ref].year # None

\* C24: within one search() call the encoder is called exactly once, before
\* the vector store; the store is called at most once and never after the
\* encoder failed; after a failure of either, neither is called again.
C24_UpstreamCalledOnceInOrder ==
    /\ encoder_calls <= 1
    /\ store_calls <= 1
    /\ pc \notin {"idle", "encode"} => encoder_calls = 1
    /\ store_calls = 1 => (encoder_calls = 1 /\ encoder_outcome = "returned")
    /\ encoder_outcome = "raised" => store_calls = 0
    /\ (encoder_calls = 0) = (encoder_outcome = "none")
    /\ (store_calls = 0) = (store_outcome = "none")
    /\ (encoder_outcome = "raised" \/ store_outcome = "raised") =>
           pc \in {"raised", "error"}

\* the encoder failed on its only call, the store was never called, and the
\* route has answered
C24_Witness ==
    /\ pc = "error"
    /\ encoder_outcome = "raised"
    /\ encoder_calls = 1
    /\ store_calls = 0

IsTerminal(e) == e.event_type \in {"done", "error"}

\* C29: search_streaming yields a "status" event first, then "result" events,
\* then one terminal event, "done" or "error", and nothing after it; "result"
\* events occur only when search() returned, they are the response's results
\* in order, and the total of "done" is the number of "result" events.
C29_StreamEventOrder ==
    LET n == Len(events)
    IN  /\ (pc # "idle") = (n >= 1)
        /\ n >= 1 => events[1].event_type = "status"
        /\ \A i \in 2..n : events[i].event_type \in {"result", "done", "error"}
        /\ \A i \in 1..n : IsTerminal(events[i]) => i = n
        /\ (pc = "stream_closed") = (n >= 1 /\ IsTerminal(events[n]))
        /\ \A i \in 2..n :
               events[i].event_type = "result" =>
                   /\ Responded
                   /\ i - 1 <= Len(ResponseResults)
                   /\ events[i].data = heap[ResponseResults[i - 1]]
                   /\ \A j \in 2..i : events[j].event_type = "result"
        /\ (n >= 1 /\ events[n].event_type = "done") =>
               /\ Responded
               /\ events[n].data.total = n - 2
               /\ events[n].data.total = Len(ResponseResults)
        /\ (n >= 1 /\ events[n].event_type = "error") =>
               /\ ~Responded
               /\ n = 2

\* a closed stream of status, two results in reranked order (not the store's
\* order) and done
C29_Witness ==
    /\ pc = "stream_closed"
    /\ Len(events) = 4
    /\ events[4].event_type = "done"
    /\ events[4].data.total = 2
    /\ RerankRan
    /\ ResponseResults[1] > ResponseResults[2]

\* the response of the single-call pipeline (the actions of Spec) for a
\* request and a store answer, with the returned objects in place of their
\* references
ResponseAlone(req, raw) ==
    LET h0 == [i \in 1..Len(raw) |-> _to_search_result(raw[i])]
        out == IF req.use_reranking
               THEN rerank(req.query, h0, [i \in 1..Len(raw) |-> i],
                           IF req.use_lexical_filter THEN req.lexical_min ELSE 0)
               ELSE [heap |-> h0, reranked |-> [i \in 1..Len(raw) |-> i]]
        limited == truncate(out.reranked, req.limit)
    IN  [query            |-> req.query,
         results          |-> [k \in 1..Len(limited) |-> out.heap[limited[k]]],
         total_found      |-> Len(limited),
         evidence_quality |-> assess_evidence_quality(out.heap, limited)]

\* the response of task i with the returned objects in place of their
\* references
TaskResponse(i) ==
    LET r == Val(tasks[i].response)
    IN  [query            |-> r.query,
         results          |-> [k \in 1..Len(r.results) |-> tasks[i].heap[r.results[k]]],
         total_found      |-> r.total_found,
         evidence_quality |-> r.evidence_quality]

\* C25: when two search() calls interleave on one service, switching at the
\* store await, the response of each is the response the call gives alone
\* for its own request and its own store answer, whatever the other call
\* asked for, got or did.
C25_InterleavedCallsIsolated ==
    \A i \in DOMAIN tasks :
        tasks[i].pc = "returned" =>
            TaskResponse(i) =
                ResponseAlone(Val(tasks[i].request), tasks[i].raw_results)

\* both calls have returned, the second having entered search() while the
\* first was suspended; they carried different queries, got the same store
\* answer and their results carry different scores
C25_Witness ==
    /\ DOMAIN tasks = TaskIds
    /\ tasks[1].pc = "returned"
    /\ tasks[2].pc = "returned"
    /\ Val(tasks[1].request).query # Val(tasks[2].request).query
    /\ Val(tasks[1].request).use_reranking
    /\ Val(tasks[2].request).use_reranking
    /\ tasks[1].raw_results = tasks[2].raw_results
    /\ Len(tasks[1].raw_results) = 2
    /\ tasks[1].heap # tasks[2].heap

\* extract_intent has returned
IntentReturned ==
    /\ call # None
    /\ Val(call).fn = "extract_intent"
    /\ ret # None

\* C21: whatever the LLM call did (raised, returned a value that is not a
\* dict, a dict without task_type, or a dict with one), the dict that
\* extract_intent returns holds a non-empty task_type, an entities list and
\* a clinical_context.
C21_IntentAlwaysComplete ==
    IntentReturned =>
        /\ Val(ret).task_type \notin {None, Null, Some("")}
        /\ Val(ret).entities \notin {None, Null}
        /\ Val(ret).clinical_context \notin {None, Null}

\* dispatch has returned or raised
DispatchReturned ==
    /\ call # None
    /\ Val(call).fn = "dispatch"
    /\ ret # None

\* the header has the form 'Bearer <key>' and <key>, the text after the
\* prefix, is one of the configured API keys
CarriesValidKey(auth_header, api_keys) ==
    /\ auth_header # None
    /\ startswith(Val(auth_header), BearerPrefix)
    /\ SubSeq(Val(auth_header), Len(BearerPrefix) + 1, Len(Val(auth_header)))
           \in valid_api_keys(api_keys)

\* C22: a request to a path other than the health-check and docs paths
\* reaches its handler only when its Authorization header is 'Bearer <key>'
\* with a valid key; without the header, or with a key that is not valid, it
\* is refused with 401 and the handler does not run; /health and
\* /health_check reach their handlers whatever the header.
C22_OnlyValidKeysReachHandlers ==
    DispatchReturned =>
        LET c == Val(call)
            r == Val(ret)
        IN  /\ (c.path \notin AUTH_EXEMPT_PATHS /\ r.handler_ran) =>
                   CarriesValidKey(c.auth_header, c.api_keys)
            /\ (c.path \notin AUTH_EXEMPT_PATHS
                    /\ ~CarriesValidKey(c.auth_header, c.api_keys)) =>
                   (r.status_code = 401 /\ ~r.handler_ran)
            /\ c.path \in {"/health", "/health_check"} => r.handler_ran

====
